---- MODULE Spec2Model ----
(***************************************************************************)
(* Model of the dubstack text-to-speech worker (src/src/App.tsx, the       *)
(* "TTS Web Worker" part), its non-worker twin SupertonicTTS               *)
(* (src/unnamed/part_002), the page's TTSWorkerClient                      *)
(* (src/unnamed/part_000), the service worker (src/public/sw.js), the      *)
(* asset loader (src/src/lib/assetLoader.ts) with the page's handleProcess *)
(* and the FFmpegDubber (src/src/lib/ffmpeg/dubber.ts).                    *)
(*                                                                         *)
(* Strings are sequences of one-character tokens.  A token is either the   *)
(* character itself ("a", ".", " ") or, for the characters outside ASCII,  *)
(* its code point written "U+XXXX".  Every token stands for one UTF-16     *)
(* code unit, so Len is JavaScript's String.length.  The double quote, the *)
(* backtick and the backslash are written U+0022, U+0060 and U+005C.       *)
(*                                                                         *)
(* Times are integers in ticks (a tick is a tenth of a second); the        *)
(* sample rate is in samples per tick.                                     *)
(***************************************************************************)
EXTENDS Integers, Sequences, FiniteSets, TLC

VARIABLES
    \* ---- worker globals (App.tsx 1372-1378)
    config, textProcessor, dpOrt, textEncOrt, vectorEstOrt, vocoderOrt, initialized,
    \* ---- the invocations of self.onmessage that are running or have run
    req,
    \* ---- the settings the page sends with each generate request
    settings,
    \* ---- what the page does in this run: how many messages it has in progress
    \*      at a time, and the texts and voice style bundles it sends
    env,
    \* ---- text-function harness: input, limit, results
    txt, mlen, units, norm, tphase,
    \* ---- subtitle harness: the list handed to generateSRT and its result
    timestamps, srt,
    \* ---- symbol encoder harness: the batch handed to UnicodeProcessor.call and
    \*      its result
    textList, textIds, textMask,
    \* ---- the SupertonicTTS instance (part_002) and the calls of its methods
    tts, tcall,
    \* ---- the TTSWorkerClient instance (part_000), the calls of its methods and
    \*      the messages between it and its worker
    client, ccall, chan,
    \* ---- the service worker (public/sw.js): its life cycle, Cache Storage, the
    \*      fetch events it handles and the cache.put calls not yet settled
    sw,
    \* ---- latent harness: the durations handed to sampleNoisyLatent and its
    \*      result
    latentInput, noisyLatent, latentMask,
    \* ---- the asset loader (lib/assetLoader.ts): its module cache and the
    \*      loadAllAssets calls; the page's processing state (App.tsx 158-272)
    cachedAssets, lcall, processing,
    \* ---- the FFmpegDubber instance (lib/ffmpeg/dubber.ts) with the virtual
    \*      filesystem of its FFmpeg, and the calls of dub
    dubber, dcall

workerVars == <<config, textProcessor, dpOrt, textEncOrt, vectorEstOrt, vocoderOrt, initialized>>
textVars == <<txt, mlen, units, norm, tphase, timestamps, srt, textList, textIds, textMask>>
ttsVars == <<tts, tcall>>
clientVars == <<client, ccall, chan>>
swVars == <<sw>>
latentVars == <<latentInput, noisyLatent, latentMask>>
assetVars == <<cachedAssets, lcall, processing>>
dubVars == <<dubber, dcall>>
vars == <<config, textProcessor, dpOrt, textEncOrt, vectorEstOrt, vocoderOrt, initialized,
          req, settings, env, txt, mlen, units, norm, tphase, timestamps, srt,
          textList, textIds, textMask, tts, tcall, client, ccall, chan, sw,
          latentInput, noisyLatent, latentMask, cachedAssets, lcall, processing,
          dubber, dcall>>

(***************************************************************************)
(* Bounds of the model                                                     *)
(***************************************************************************)
\* longest input text of the segmenter harness
MaxText == 5
\* largest maxLen handed to chunkText in the segmenter harness
MaxChunkLen == 4
\* longest input text of the normalizer harness
MaxNormText == 4

Max(S) == CHOOSE x \in S : \A y \in S : y <= x
Last(s) == s[Len(s)]
Range(s) == {s[k] : k \in 1..Len(s)}

(***************************************************************************)
(* Characters                                                              *)
(***************************************************************************)
\* JavaScript's \s, restricted to the tokens of the model
WhiteSpace == {" ", "\n", "\t", "U+00A0"}
IsWS(c) == c \in WhiteSpace

\* String.prototype.trim
RECURSIVE TrimLeft(_)
TrimLeft(s) == IF s # <<>> /\ IsWS(Head(s)) THEN TrimLeft(Tail(s)) ELSE s
RECURSIVE TrimRight(_)
TrimRight(s) == IF s # <<>> /\ IsWS(s[Len(s)]) THEN TrimRight(SubSeq(s, 1, Len(s) - 1)) ELSE s
Trim(s) == TrimRight(TrimLeft(s))

\* String.prototype.replaceAll(pat, rep) with a literal pattern: leftmost,
\* non-overlapping occurrences, one pass
RECURSIVE ReplaceAll(_, _, _)
ReplaceAll(s, pat, rep) ==
    IF Len(s) < Len(pat) THEN s
    ELSE IF SubSeq(s, 1, Len(pat)) = pat
         THEN rep \o ReplaceAll(SubSeq(s, Len(pat) + 1, Len(s)), pat, rep)
         ELSE <<Head(s)>> \o ReplaceAll(Tail(s), pat, rep)

\* String.prototype.includes
Includes(s, pat) == \E k \in 1..(Len(s) - Len(pat) + 1) : SubSeq(s, k, k + Len(pat) - 1) = pat

\* replace(/[set]/g, '')
RemoveChars(s, set) == SelectSeq(s, LAMBDA c : c \notin set)

\* the end of the maximal whitespace run that starts at p
WsRunEnd(s, p) ==
    CHOOSE e \in p..Len(s) :
        /\ \A k \in p..e : IsWS(s[k])
        /\ (e = Len(s) \/ ~IsWS(s[e + 1]))

(***************************************************************************)
(* chunkText (App.tsx 1310-1342, part_002 288-324)                         *)
(***************************************************************************)
\* /\n\s*\n+/ matched at p: the index of the last character of the match, 0 if
\* there is no match at p.  \s* is greedy and gives back until \n+ can match,
\* so the match runs from the newline at p to the last newline of the run.
ParagraphBreakEnd(s, p) ==
    IF s[p] # "\n" THEN 0
    ELSE LET e == WsRunEnd(s, p)
             nl == {q \in (p + 1)..e : s[q] = "\n"}
         IN IF nl = {} THEN 0 ELSE Max(nl)

\* text.split(/\n\s*\n+/), scanning from p with the current piece begun at start
RECURSIVE SplitParagraphs(_, _, _)
SplitParagraphs(s, p, start) ==
    IF p > Len(s) THEN <<SubSeq(s, start, Len(s))>>
    ELSE LET q == ParagraphBreakEnd(s, p)
         IN IF q > 0
            THEN <<SubSeq(s, start, p - 1)>> \o SplitParagraphs(s, q + 1, q + 1)
            ELSE SplitParagraphs(s, p + 1, start)

SentenceEnd == {".", "!", "?"}

\* /(?<=[.!?])\s+/ matched at p: the index of the last character of the match,
\* 0 if there is no match at p
SentenceBreakEnd(s, p) ==
    IF p > 1 /\ s[p - 1] \in SentenceEnd /\ IsWS(s[p]) THEN WsRunEnd(s, p) ELSE 0

\* paragraph.split(/(?<=[.!?])\s+/)
RECURSIVE SplitSentences(_, _, _)
SplitSentences(s, p, start) ==
    IF p > Len(s) THEN <<SubSeq(s, start, Len(s))>>
    ELSE LET q == SentenceBreakEnd(s, p)
         IN IF q > 0
            THEN <<SubSeq(s, start, p - 1)>> \o SplitSentences(s, q + 1, q + 1)
            ELSE SplitSentences(s, p + 1, start)

\* the paragraphs chunkText iterates over: split, drop the blank ones, trim
Paragraphs(text) ==
    LET pieces == SelectSeq(SplitParagraphs(Trim(text), 1, 1), LAMBDA p : Trim(p) # <<>>)
    IN [k \in 1..Len(pieces) |-> Trim(pieces[k])]

\* the append test of the packing loop
FitsNoSeparator(currentChunk, sentence, maxLen) == Len(currentChunk) + Len(sentence) <= maxLen
Fits(currentChunk, sentence, maxLen) == Len(currentChunk) + Len(sentence) + 1 <= maxLen

\* the inner loop over the sentences of one paragraph, from sentence k on, and
\* the push of the last chunk after it
RECURSIVE PackSentences(_, _, _, _)
PackSentencesDropping(sentences, k, currentChunk, maxLen) ==
    IF k > Len(sentences)
    THEN IF currentChunk # <<>> THEN <<Trim(currentChunk)>> ELSE <<>>
    ELSE IF Fits(currentChunk, sentences[k], maxLen)
         THEN PackSentences(sentences, k + 1,
                  currentChunk \o (IF currentChunk # <<>> THEN <<" ">> ELSE <<>>) \o sentences[k],
                  maxLen)
         ELSE (IF currentChunk # <<>> THEN <<Trim(currentChunk)>> ELSE <<>>)
              \o PackSentences(sentences, k + 1, <<>>, maxLen)
PackSentences(sentences, k, currentChunk, maxLen) ==
    IF k > Len(sentences)
    THEN IF currentChunk # <<>> THEN <<Trim(currentChunk)>> ELSE <<>>
    ELSE IF Fits(currentChunk, sentences[k], maxLen)
         THEN PackSentences(sentences, k + 1,
                  currentChunk \o (IF currentChunk # <<>> THEN <<" ">> ELSE <<>>) \o sentences[k],
                  maxLen)
         ELSE (IF currentChunk # <<>> THEN <<Trim(currentChunk)>> ELSE <<>>)
              \o PackSentences(sentences, k + 1, sentences[k], maxLen)

\* the outer loop over the paragraphs, from paragraph k on
RECURSIVE PackParagraphs(_, _, _)
PackParagraphs(paragraphs, k, maxLen) ==
    IF k > Len(paragraphs) THEN <<>>
    ELSE PackSentences(SplitSentences(paragraphs[k], 1, 1), 1, <<>>, maxLen)
         \o PackParagraphs(paragraphs, k + 1, maxLen)

chunkText(text, maxLen) ==
    LET chunks == PackParagraphs(Paragraphs(text), 1, maxLen)
    IN IF Len(chunks) > 0 THEN chunks ELSE <<Trim(text)>>

\* the default maxLen of the worker's chunkText
DefaultMaxLen == 300

(***************************************************************************)
(* UnicodeProcessor.preprocessText (App.tsx 1188-1246)                     *)
(***************************************************************************)
\* text.normalize('NFKD'), on the tokens of the model: the no-break space
\* decomposes to a space, the ellipsis to three full stops, e-acute to e and
\* the combining acute accent; ASCII is left as it is
NFKDChar(c) ==
    CASE c = "U+00A0" -> <<" ">>
      [] c = "U+2026" -> <<".", ".", ".">>
      [] c = "U+00E9" -> <<"e", "U+0301">>
      [] c = "U+00EA" -> <<"e", "U+0302">>
      [] OTHER -> <<c>>
RECURSIVE NFKD(_)
NFKD(s) == IF s = <<>> THEN <<>> ELSE NFKDChar(Head(s)) \o NFKD(Tail(s))

\* the emoji pattern, on the tokens of the model (U+2600..U+27BF are in it)
EmojiChars == {"U+2600", "U+2665", "U+2605", "U+2606", "U+2661", "U+2764"}

\* the replacements table; every key is one character and no value is a key,
\* so the sequence of replaceAll calls is one map over the characters
Replacement(c) ==
    CASE c \in {"U+2013", "U+2011", "U+2014"} -> "-"
      [] c \in {"U+00AF", "_", "[", "]", "|", "/", "#", "U+2192", "U+2190"} -> " "
      [] c \in {"U+201C", "U+201D"} -> "U+0022"
      [] c \in {"U+2018", "U+2019", "U+00B4", "U+0060"} -> "'"
      [] OTHER -> c
ApplyReplacements(s) == [k \in 1..Len(s) |-> Replacement(s[k])]

\* the combining marks of the worker's pattern
Diacritics == {"U+0302", "U+0303", "U+0304", "U+0305", "U+0306", "U+0307", "U+0308",
               "U+030A", "U+030B", "U+030C", "U+0327", "U+0328", "U+0329", "U+032A",
               "U+032B", "U+032C", "U+032D", "U+032E", "U+032F"}

\* /[♥☆♡©\\]/g
SpecialSymbols == {"U+2665", "U+2606", "U+2661", "U+00A9", "U+005C"}

\* exprReplacements, in insertion order
ReplaceExpressions(s) ==
    LET s1 == ReplaceAll(s, <<"@">>, <<" ", "a", "t", " ">>)
        s2 == ReplaceAll(s1, <<"e", ".", "g", ".", ",">>,
                  <<"f", "o", "r", " ", "e", "x", "a", "m", "p", "l", "e", ",", " ">>)
    IN ReplaceAll(s2, <<"i", ".", "e", ".", ",">>,
                  <<"t", "h", "a", "t", " ", "i", "s", ",", " ">>)

\* "Fix spacing around punctuation": seven single passes, in this order
FixSpacing(s) ==
    LET s1 == ReplaceAll(s, <<" ", ",">>, <<",">>)
        s2 == ReplaceAll(s1, <<" ", ".">>, <<".">>)
        s3 == ReplaceAll(s2, <<" ", "!">>, <<"!">>)
        s4 == ReplaceAll(s3, <<" ", "?">>, <<"?">>)
        s5 == ReplaceAll(s4, <<" ", ";">>, <<";">>)
        s6 == ReplaceAll(s5, <<" ", ":">>, <<":">>)
    IN ReplaceAll(s6, <<" ", "'">>, <<"'">>)

\* while (s.includes(qq)) s = s.replaceAll(qq, q)
RECURSIVE CollapseQuote(_, _)
CollapseQuote(s, q) ==
    IF Includes(s, <<q, q>>) THEN CollapseQuote(ReplaceAll(s, <<q, q>>, <<q>>), q) ELSE s
RemoveDuplicateQuotes(s) == CollapseQuote(CollapseQuote(CollapseQuote(s, "U+0022"), "'"), "U+0060")

\* replace(/\s+/g, ' ')
RECURSIVE CollapseSpaces(_)
CollapseSpaces(s) ==
    IF s = <<>> THEN <<>>
    ELSE IF IsWS(Head(s))
         THEN <<" ">> \o CollapseSpaces(SubSeq(s, WsRunEnd(s, 1) + 1, Len(s)))
         ELSE <<Head(s)>> \o CollapseSpaces(Tail(s))
RemoveExtraSpaces(s) == Trim(CollapseSpaces(s))

\* the characters of the tail test /[.!?;:,'"')\]}…。」』】〉》›»]$/
TailPunctuation == {".", "!", "?", ";", ":", ",", "'", "U+0022", ")", "]", "}", "U+2026",
                    "U+3002", "U+300D", "U+300F", "U+3011", "U+3009", "U+300B",
                    "U+203A", "U+00BB"}
AddTailPunctuationSkippingEmpty(s) ==
    IF s = <<>> \/ s[Len(s)] \in TailPunctuation THEN s ELSE s \o <<".">>
AddTailPunctuation(s) ==
    IF s # <<>> /\ s[Len(s)] \in TailPunctuation THEN s ELSE s \o <<".">>

preprocessText(text) ==
    LET n1 == RemoveChars(NFKD(text), EmojiChars)
        n2 == ApplyReplacements(n1)
        n3 == RemoveChars(n2, Diacritics)
        n4 == RemoveChars(n3, SpecialSymbols)
        n5 == ReplaceExpressions(n4)
        n6 == FixSpacing(n5)
        n7 == RemoveDuplicateQuotes(n6)
        n8 == RemoveExtraSpaces(n7)
    IN AddTailPunctuation(n8)


(***************************************************************************)
(* The objects of the library after construction                           *)
(***************************************************************************)
\* the calls of SupertonicTTS methods that can be in progress at the same time
TtsCallers == {1, 2}

\* SupertonicTTS after its constructor (part_002 326-344).  A session handle
\* is 0 (null) or the call that created it; voiceStyles is the Map, a function
\* on the voice ids it has; loaded is history: the voice ids whose style has
\* been loaded since construction.
TtsNew ==
    [initialized |-> FALSE, config |-> 0, textProcessor |-> 0,
     dpOrt |-> 0, textEncOrt |-> 0, vectorEstOrt |-> 0, vocoderOrt |-> 0,
     voiceStyles |-> <<>>, availableVoices |-> <<>>, loaded |-> {}]

\* one call of SupertonicTTS.init or SupertonicTTS.generate.  known, fetched,
\* parsed and hit are history: the voice had been loaded when the call was
\* made, the call fetched the bundle, it built tensors from it, it returned
\* the cached style.
NoTCall ==
    [kind |-> "none", pc |-> "idle", inInit |-> FALSE, voiceId |-> "", style |-> <<>>,
     known |-> FALSE, fetched |-> FALSE, parsed |-> FALSE, hit |-> FALSE,
     outcome |-> "none"]

\* the calls of TTSWorkerClient methods in one run, numbered in call order
MaxClientCalls == 3
ClientCalls == 1..MaxClientCalls
\* the Worker objects one client creates in one run
MaxWorkers == 2

\* TTSWorkerClient after its constructor (part_000 39-51).  worker is 0 (null)
\* or the number of the Worker created; pendingResolve, pendingReject and
\* progressCallback are 0 (null) or the call whose functions they hold.
\* created, alive and loaded are history: the number of Workers created, the
\* Workers not terminated, the voice ids whose bundle has been sent to a worker.
ClientNew ==
    [worker |-> 0, pendingResolve |-> 0, pendingReject |-> 0, progressCallback |-> 0,
     availableVoices |-> <<>>, initialized |-> FALSE, created |-> 0, alive |-> {},
     loaded |-> {}]

\* one call of TTSWorkerClient.init or TTSWorkerClient.generate.  known,
\* fetched, progress, foreign and by are history: the voice's bundle had been
\* sent to a worker when the call was made, the call fetched the bundle, the
\* number of times the call's onProgress was called, whether it was called
\* with the progress message of another call's request, and the call whose
\* request the message that settled the promise answered (0: the promise was
\* not settled by a message).
NoCCall ==
    [kind |-> "none", pc |-> "idle", voiceId |-> "", known |-> FALSE, fetched |-> FALSE,
     progress |-> 0, foreign |-> FALSE, by |-> 0, outcome |-> "none"]

\* no service worker is registered
NoServiceWorker == [state |-> "none", caches |-> <<>>, cacheNames |-> {}, ev |-> <<>>,
                    puts |-> {}, stored |-> {}]

\* the harnesses of generateSRT, of UnicodeProcessor.call and of
\* sampleNoisyLatent are off, and so is the service worker
HarnessIdle ==
    /\ timestamps = <<>> /\ srt = <<>>
    /\ textList = <<>> /\ textIds = <<>> /\ textMask = <<>>
    /\ latentInput = <<>> /\ noisyLatent = <<>> /\ latentMask = <<>>
    /\ sw = NoServiceWorker

\* the loadAllAssets calls of one run of the model, numbered in call order
LoadCalls == {1, 2}

\* the four asset groups of loadAllAssets, in the order of its Promise.all
AssetGroups == <<"tts", "ffmpeg", "video", "font">>

\* the module variable cachedAssets after 'let cachedAssets = {}'
\* (assetLoader.ts 44).  tts and ffmpeg say whether the property is set, font
\* is "" (absent) or the fontPath the stored buffer was fetched from.  cleared
\* is history: clearAssetCache was called and loadAllAssets has not been
\* called since.
AssetsEmpty == [tts |-> FALSE, ffmpeg |-> FALSE, font |-> "", cleared |-> FALSE]

\* one call of loadAllAssets.  pc is the await each of the four loaders is at;
\* video and font are what the two loaders returned: the name of the video
\* and the fontPath the bytes were fetched from.  reports (the progress values passed to onProgress, in
\* order), fetched (the groups this call started a network fetch for),
\* afterClear (the call is the first one after clearAssetCache) and late
\* (onProgress was called after the promise was rejected) are history.
NoLCall ==
    [videoName |-> "", fontPath |-> "", pc |-> [g \in {"tts", "ffmpeg", "video", "font"} |-> "none"],
     video |-> "", font |-> "",
     completedSteps |-> 0, reports |-> <<>>, fetched |-> {}, afterClear |-> FALSE,
     late |-> FALSE, outcome |-> "none"]

\* the page's processing state after useState (App.tsx 158-272).  run is the
\* loadAllAssets call of the handleProcess invocation made last (0: none) and
\* pc the await that invocation is at.
ProcessingIdle == [stage |-> "idle", progress |-> 0, run |-> 0, pc |-> "idle"]

\* the dub calls made on the FFmpegDubber instance, numbered in call order
DubCalls == {1, 2}

\* the files dub writes to the virtual filesystem of FFmpeg
DubFiles == {"input.mp4", "audio.wav", "subtitles.srt", "output.mp4"}

\* FFmpegDubber after its constructor (dubber.ts 33-39).  fs is the virtual
\* filesystem: for each file 0 (absent) or the dub call that wrote it last.
DubberNew == [loaded |-> FALSE, fs |-> [f \in DubFiles |-> 0]]

\* one call of dub.  reads and after are history: for each file, the call that
\* wrote what ffmpeg.exec or readFile read for this call (0: not read), and
\* the calls that had ended when this call was made.
NoDCall == [pc |-> "idle", outcome |-> "none", reads |-> [f \in DubFiles |-> 0], after |-> {}]

\* the library is not in use
LibraryIdle ==
    /\ tts = TtsNew
    /\ tcall = [c \in TtsCallers |-> NoTCall]
    /\ client = ClientNew
    /\ ccall = [c \in ClientCalls |-> NoCCall]
    /\ chan = <<>>
    /\ cachedAssets = AssetsEmpty
    /\ lcall = [c \in LoadCalls |-> NoLCall]
    /\ processing = ProcessingIdle
    /\ dubber = DubberNew
    /\ dcall = [c \in DubCalls |-> NoDCall]

(***************************************************************************)
(* Harness of the segmenter: chunkText applied to every text over a small  *)
(* alphabet and every limit up to MaxChunkLen                              *)
(***************************************************************************)
Strings(alphabet, n) == UNION {[1..k -> alphabet] : k \in 0..n}

ChunkAlphabet == {"a", ".", " ", "\n"}
NormAlphabet == {"a", " ", "\n", ".", ",", "'", "@", "U+0060", "U+2665"}

\* the worker's part of a state of the text harnesses: the worker just loaded
WorkerIdle ==
    /\ config = <<>> /\ textProcessor = 0
    /\ dpOrt = 0 /\ textEncOrt = 0 /\ vectorEstOrt = 0 /\ vocoderOrt = 0
    /\ initialized = FALSE
    /\ req = <<>>
    /\ settings = <<>>
    /\ env = <<>>
    /\ LibraryIdle

InitChunk ==
    /\ WorkerIdle
    /\ txt \in Strings(ChunkAlphabet, MaxText)
    /\ mlen \in 1..MaxChunkLen
    /\ units = <<>>
    /\ norm = <<>>
    /\ tphase = "input"
    /\ HarnessIdle

Segment ==
    /\ tphase = "input"
    /\ units' = chunkText(txt, mlen)
    /\ tphase' = "segmented"
    /\ UNCHANGED <<assetVars, dubVars, swVars, latentVars, workerVars, req, settings, env, ttsVars, clientVars, txt, mlen, norm,
                   timestamps, srt, textList, textIds, textMask>>

NextChunk == Segment
SpecChunk == InitChunk /\ [][NextChunk]_vars

(***************************************************************************)
(* Harness of the normalizer: preprocessText applied to every text over a  *)
(* small alphabet, and then once more to its own result                    *)
(***************************************************************************)
InitNorm ==
    /\ WorkerIdle
    /\ txt \in Strings(NormAlphabet, MaxNormText)
    /\ mlen = 0
    /\ units = <<>>
    /\ norm = <<>>
    /\ tphase = "input"
    /\ HarnessIdle

Normalize ==
    /\ Len(norm) < 2
    /\ norm' = Append(norm, preprocessText(IF norm = <<>> THEN txt ELSE norm[Len(norm)]))
    /\ tphase' = "normalized"
    /\ UNCHANGED <<assetVars, dubVars, swVars, latentVars, workerVars, req, settings, env, ttsVars, clientVars, txt, mlen, units,
                   timestamps, srt, textList, textIds, textMask>>

NextNorm == Normalize
SpecNorm == InitNorm /\ [][NextNorm]_vars

(***************************************************************************)
(* Harness of the text path of generate (App.tsx 1564, 1585, 1476): the    *)
(* text is cut by chunkText, and infer hands each chunk to                 *)
(* textProcessor.call, which normalizes it before it is encoded            *)
(***************************************************************************)
UnitAlphabet == {"a", ".", " ", "\n", "@"}

InitUnits ==
    /\ WorkerIdle
    /\ txt \in Strings(UnitAlphabet, MaxText)
    /\ mlen \in 1..MaxChunkLen
    /\ units = <<>>
    /\ norm = <<>>
    /\ tphase = "input"
    /\ HarnessIdle

\* the processed text of every chunk, as UnicodeProcessor.call computes it
NormalizeUnits ==
    /\ tphase = "segmented"
    /\ norm' = [k \in 1..Len(units) |-> preprocessText(units[k])]
    /\ tphase' = "processed"
    /\ UNCHANGED <<assetVars, dubVars, swVars, latentVars, workerVars, req, settings, env, ttsVars, clientVars, txt, mlen, units,
                   timestamps, srt, textList, textIds, textMask>>

NextUnits == Segment \/ NormalizeUnits
SpecUnits == InitUnits /\ [][NextUnits]_vars


(***************************************************************************)
(* The worker: parameters of the environment                               *)
(***************************************************************************)
\* the engine configuration of the assets (tts.json): samples per tick, base
\* chunk size, latent compression factor, latent dimension
SampleRate == 4
BaseChunkSize == 2
ChunkCompressFactor == 3
LatentDim == 2
AssetConfig ==
    [ae |-> [sample_rate |-> SampleRate, base_chunk_size |-> BaseChunkSize],
     ttl |-> [chunk_compress_factor |-> ChunkCompressFactor, latent_dim |-> LatentDim]]

\* the invocations of self.onmessage that can be in progress at the same time
Handlers == {1, 2}

\* the texts a generate message carries: nothing, white space only, one
\* sentence, two paragraphs, three paragraphs
Texts == { <<>>, <<" ", "\n">>, <<"a", ".">>, <<"a", ".", "\n", "\n", "b", ".">>,
           <<"a", ".", "\n", "\n", "b", ".", "\n", "\n", "c">> }

\* the voice style bundles a generate message carries; data is the number of
\* elements of the flattened nested array
GoodStyle == [style_ttl |-> [dims |-> <<1, 2, 3>>, data |-> 6],
              style_dp |-> [dims |-> <<1, 1, 2>>, data |-> 2]]
ShortTtlStyle == [style_ttl |-> [dims |-> <<1, 2, 3>>, data |-> 5],
                  style_dp |-> [dims |-> <<1, 1, 2>>, data |-> 2]]
LongDpStyle == [style_ttl |-> [dims |-> <<1, 2, 3>>, data |-> 6],
                style_dp |-> [dims |-> <<1, 1, 2>>, data |-> 3]]
VoiceStyles == {GoodStyle, ShortTtlStyle, LongDpStyle}

\* speed, silenceDuration and endSilenceDuration of the page's settings
Speeds == {1, 2}
SilenceDurations == {0, 3}
EndSilenceDurations == {0, 5}
SettingsSet == [speed : Speeds, silenceDuration : SilenceDurations,
                endSilenceDuration : EndSilenceDurations]

\* the durations (ticks) the duration predictor returns; multiples of every speed
DurationOutputs == {0, 2}

(***************************************************************************)
(* Messages the worker posts (WorkerResponse, App.tsx 1173-1177)           *)
(***************************************************************************)
Msg(type, message) ==
    [type |-> type, message |-> message, chunkIndex |-> -1, totalChunks |-> -1,
     duration |-> -1, timestamps |-> <<>>, wav |-> <<>>]

IsTerminal(m) == m.type \in {"result", "error"}

(***************************************************************************)
(* loadVoiceStyle (App.tsx 1407-1423)                                      *)
(***************************************************************************)
\* new ort.Tensor(type, data, dims) throws unless the data has as many
\* elements as the dims multiply to
TensorFits(dataLen, dims) == dataLen = dims[1] * dims[2] * dims[3]

NoStyle == [ok |-> FALSE, ttl |-> [dims |-> <<>>, size |-> 0], dp |-> [dims |-> <<>>, size |-> 0]]

\* ok = FALSE: the call threw; otherwise the two tensors it returns
loadVoiceStyleTruncating(voiceStyleData) ==
    LET ttlDims == <<1, voiceStyleData.style_ttl.dims[2], voiceStyleData.style_ttl.dims[3]>>
        dpDims == <<1, voiceStyleData.style_dp.dims[2], voiceStyleData.style_dp.dims[3]>>
    IN [ok |-> TRUE,
        ttl |-> [dims |-> ttlDims, size |-> ttlDims[2] * ttlDims[3]],
        dp |-> [dims |-> dpDims, size |-> dpDims[2] * dpDims[3]]]

loadVoiceStyle(voiceStyleData) ==
    LET ttlDims == <<1, voiceStyleData.style_ttl.dims[2], voiceStyleData.style_ttl.dims[3]>>
        dpDims == <<1, voiceStyleData.style_dp.dims[2], voiceStyleData.style_dp.dims[3]>>
        ttlData == voiceStyleData.style_ttl.data
        dpData == voiceStyleData.style_dp.data
    IN IF TensorFits(ttlData, ttlDims) /\ TensorFits(dpData, dpDims)
       THEN [ok |-> TRUE, ttl |-> [dims |-> ttlDims, size |-> ttlData],
             dp |-> [dims |-> dpDims, size |-> dpData]]
       ELSE NoStyle

(***************************************************************************)
(* sampleNoisyLatent / getLatentMask (App.tsx 1425-1463, 1285-1291)        *)
(***************************************************************************)
\* latentLen of sampleNoisyLatent for one duration
LatentLen(cfg, duration) ==
    LET wavLenMax == duration * cfg.ae.sample_rate
        chunkSize == cfg.ae.base_chunk_size * cfg.ttl.chunk_compress_factor
    IN (wavLenMax + chunkSize - 1) \div chunkSize

(***************************************************************************)
(* One invocation of self.onmessage (App.tsx 1627-1679) with the locals of *)
(* generate (1552-1623) and infer (1465-1550).  calls, returns, durs and   *)
(* failedAt are history: the engine calls issued, how many of them have    *)
(* returned, the durations predicted, the unit an engine call failed in.   *)
(* A tensor an engine call returns is named by where it comes from:        *)
(* textEmb is the unit whose text encoder call returned it (-1: none yet), *)
(* noisyLatent is the masked noise of sampleNoisyLatent for a unit or the  *)
(* denoised latent of a step of a unit.                                    *)
(***************************************************************************)
NoLatent == [from |-> "none", unit |-> -1, step |-> -1]

NoReq ==
    [kind |-> "none", pc |-> "idle", text |-> <<>>, voiceStyleData |-> GoodStyle,
     style |-> NoStyle, textChunks |-> <<>>, i |-> 0, step |-> 0, durOnnx |-> 0,
     latentLen |-> 0, textEmb |-> -1, noisyLatent |-> NoLatent, timestamps |-> <<>>, currentTime |-> 0, durCat |-> 0, wavCat |-> <<>>,
     posted |-> <<>>, calls |-> <<>>, returns |-> 0, durs |-> <<>>, failedAt |-> -1]

Post(r, m) == [r EXCEPT !.posted = Append(@, m)]

\* the locals of generate and infer go out of scope
DropLocals(r) ==
    [r EXCEPT !.style = NoStyle, !.step = 0, !.durOnnx = 0, !.latentLen = 0,
              !.textEmb = -1, !.noisyLatent = NoLatent,
              !.timestamps = <<>>, !.currentTime = 0, !.durCat = 0, !.wavCat = <<>>]

\* the catch block of self.onmessage
CatchError(r, message) == [DropLocals(Post(r, Msg("error", message))) EXCEPT !.pc = "done"]

\* totalStep of generate
TotalStep == 8

\* session.run(...) is called: the stage, the unit and what the feeds are made
\* from (textLen is the length of text_ids and text_mask, latentLen that of
\* latent_mask)
Call(r, stage) ==
    LET est == stage = "vectorEst"
    IN [r EXCEPT !.pc = stage,
                 !.calls = Append(@, [stage |-> stage, unit |-> r.i,
                                      step |-> IF est THEN r.step ELSE -1,
                                      textLen |-> Len(preprocessText(r.textChunks[r.i + 1])),
                                      latent |-> IF stage \in {"vectorEst", "vocoder"}
                                                 THEN r.noisyLatent ELSE NoLatent,
                                      textEmb |-> IF est THEN r.textEmb ELSE -1,
                                      latentLen |-> IF est THEN r.latentLen ELSE -1,
                                      totalStep |-> IF est THEN TotalStep ELSE -1])]

\* an awaited session.run(...) rejects in handler r: the exception leaves infer
\* and generate and reaches the catch block
StageFailedPartial(r) ==
    [DropLocals(Post([r EXCEPT !.failedAt = r.i, !.returns = @ + 1],
         [Msg("result", "") EXCEPT !.timestamps = r.timestamps, !.wav = r.wavCat,
                                   !.duration = r.durCat]))
     EXCEPT !.pc = "done"]

StageFailedRetry(r) ==
    [r EXCEPT !.failedAt = r.i, !.returns = @ + 1, !.calls = Append(@, @[Len(@)])]

StageFailed(r) ==
    CatchError([r EXCEPT !.failedAt = r.i, !.returns = @ + 1], "inference failed")

\* the head of the loop body of generate for unit r.i: the progress message,
\* then infer up to its first await
StartUnit(r) ==
    LET p == [Msg("progress", "Generating speech") EXCEPT
                  !.chunkIndex = r.i, !.totalChunks = Len(r.textChunks)]
    IN IF textProcessor = 0 \/ dpOrt = 0 \/ textEncOrt = 0 \/ vectorEstOrt = 0 \/ vocoderOrt = 0
       THEN CatchError(Post(r, p), "TTS engine not initialized")
       ELSE Call(Post(r, p), "dp")


\* the test of the diffusion loop: for (let step = 0; step < totalStep; step++)
MoreStepsEarlyExit(r, totalStep) == r.step < totalStep /\ r.durOnnx > 0
MoreSteps(r, totalStep) == r.step < totalStep

\* the i++ of the loop over the chunks
LoopNextSkipping(i) == i + 2
LoopNext(i) == i + 1

\* currentTime = currentTime + chunkDuration + silenceDuration
NextCurrentTimeNoSilence(currentTime, chunkDuration, silenceDuration) ==
    currentTime + chunkDuration
NextCurrentTime(currentTime, chunkDuration, silenceDuration) ==
    currentTime + chunkDuration + silenceDuration

\* durCat after a chunk: the first chunk sets it, a later one adds its duration
\* and the silence before it (wavCat = <<>> is wavCat === null)
NextDurCatSilenceFirst(wavCat, durCat, chunkDuration, silenceDuration) ==
    durCat + chunkDuration + silenceDuration
NextDurCat(wavCat, durCat, chunkDuration, silenceDuration) ==
    IF wavCat = <<>> THEN chunkDuration ELSE durCat + chunkDuration + silenceDuration

\* wavCat after a chunk, as the runs of samples it is concatenated from
NextWavCatSilenceFirst(wavCat, unit, wavLen, silenceDuration, sampleRate) ==
    LET wav == [kind |-> "wav", unit |-> unit, len |-> wavLen]
        silence == [kind |-> "silence", unit |-> -1, len |-> silenceDuration * sampleRate]
    IN wavCat \o <<silence, wav>>
NextWavCat(wavCat, unit, wavLen, silenceDuration, sampleRate) ==
    LET wav == [kind |-> "wav", unit |-> unit, len |-> wavLen]
        silence == [kind |-> "silence", unit |-> -1, len |-> silenceDuration * sampleRate]
    IN IF wavCat = <<>> THEN <<wav>> ELSE wavCat \o <<silence, wav>>

\* generate after its loop: the end silence, the SRT, the returned record, and
\* the 'result' message self.onmessage posts from it
Finish(r) ==
    LET sampleRate == config[1].ae.sample_rate
        tail == settings.endSilenceDuration > 0 /\ r.wavCat # <<>>
        wavCat == IF tail
                  THEN Append(r.wavCat, [kind |-> "silence", unit |-> -1,
                                         len |-> settings.endSilenceDuration * sampleRate])
                  ELSE r.wavCat
        durCat == IF tail THEN r.durCat + settings.endSilenceDuration ELSE r.durCat
        m == [Msg("result", "") EXCEPT !.timestamps = r.timestamps, !.wav = wavCat,
                                       !.duration = durCat]
    IN [DropLocals(Post(r, m)) EXCEPT !.pc = "done"]

\* the test of the loop over the chunks
GenerateLoop(r) == IF r.i < Len(r.textChunks) THEN StartUnit(r) ELSE Finish(r)

\* infer has returned wav and duration for unit r.i: the rest of the loop body
AfterInfer(r, wavLen) ==
    LET chunkDuration == r.durOnnx
        sampleRate == config[1].ae.sample_rate
    IN [r EXCEPT
          !.timestamps = Append(@, [text |-> r.textChunks[r.i + 1], start |-> r.currentTime,
                                    end |-> r.currentTime + chunkDuration]),
          !.wavCat = NextWavCat(@, r.i, wavLen, settings.silenceDuration, sampleRate),
          !.durCat = NextDurCat(r.wavCat, @, chunkDuration, settings.silenceDuration),
          !.currentTime = NextCurrentTime(@, chunkDuration, settings.silenceDuration),
          !.i = LoopNext(@)]

\* the copy loop at the end of a diffusion step: noisyLatent after it
NextLatentKeeping(latent, unit, step) == latent
NextLatent(latent, unit, step) == [from |-> "vectorEst", unit |-> unit, step |-> step]

\* the diffusion loop at its test
DiffusionLoopEarlyVocoder(r) ==
    IF MoreSteps(r, TotalStep - 1) THEN Call(r, "vectorEst") ELSE Call(r, "vocoder")
DiffusionLoop(r) == IF MoreSteps(r, TotalStep) THEN Call(r, "vectorEst") ELSE Call(r, "vocoder")

(***************************************************************************)
(* Actions                                                                 *)
(***************************************************************************)
\* the page may have a message handled by invocation h now
Free(h) == h \in env.handlers /\ req[h].pc \in {"idle", "done"}

\* an 'init' message is dispatched: initTTS up to its await
OnMessageInit(h) ==
    /\ Free(h)
    /\ IF initialized
       THEN /\ req' = [req EXCEPT ![h] = [Post([NoReq EXCEPT !.kind = "init"], Msg("ready", ""))
                                          EXCEPT !.pc = "done"]]
            /\ UNCHANGED <<config, textProcessor>>
       ELSE /\ config' = <<AssetConfig>>
            /\ textProcessor' = 1
            /\ req' = [req EXCEPT ![h] = [NoReq EXCEPT !.kind = "init", !.pc = "create"]]
    /\ UNCHANGED <<assetVars, dubVars, swVars, latentVars, dpOrt, textEncOrt, vectorEstOrt, vocoderOrt, initialized, settings, env, textVars, ttsVars, clientVars>>

\* Promise.all of the four InferenceSession.create settles
CreateReturn(h, ok) ==
    /\ req[h].pc = "create"
    /\ IF ok
       THEN /\ dpOrt' = h /\ textEncOrt' = h /\ vectorEstOrt' = h /\ vocoderOrt' = h
            /\ initialized' = TRUE
            /\ req' = [req EXCEPT ![h] = [Post(req[h], Msg("ready", "")) EXCEPT !.pc = "done"]]
       ELSE /\ req' = [req EXCEPT ![h] = CatchError(req[h], "session creation failed")]
            /\ UNCHANGED <<dpOrt, textEncOrt, vectorEstOrt, vocoderOrt, initialized>>
    /\ UNCHANGED <<assetVars, dubVars, swVars, latentVars, config, textProcessor, settings, env, textVars, ttsVars, clientVars>>

\* a 'generate' message is dispatched: self.onmessage and generate up to the
\* first await of infer
OnMessageGenerate(h, text, voiceStyleData) ==
    /\ Free(h)
    /\ text \in env.texts
    /\ voiceStyleData \in env.styles
    /\ LET r0 == [NoReq EXCEPT !.kind = "generate", !.text = text,
                               !.voiceStyleData = voiceStyleData]
           r1 == Post(r0, Msg("progress", "Starting generation..."))
           style == loadVoiceStyle(voiceStyleData)
           r2 == [r1 EXCEPT !.style = style, !.textChunks = chunkText(text, DefaultMaxLen)]
       IN req' = [req EXCEPT ![h] =
                     IF ~initialized THEN CatchError(r0, "TTS worker not initialized")
                     ELSE IF ~style.ok THEN CatchError(r1, "tensor size mismatch")
                     ELSE GenerateLoop(r2)]
    /\ UNCHANGED <<assetVars, dubVars, swVars, latentVars, workerVars, settings, env, textVars, ttsVars, clientVars>>

\* dpOrt.run settles
DpReturn(h, ok, duration) ==
    /\ req[h].pc = "dp"
    /\ req' = [req EXCEPT ![h] =
                  IF ~ok THEN StageFailed(req[h])
                  ELSE LET durOnnx == duration \div settings.speed
                       IN Call([req[h] EXCEPT !.returns = @ + 1, !.durOnnx = durOnnx,
                                              !.durs = Append(@, durOnnx)], "textEnc")]
    /\ UNCHANGED <<assetVars, dubVars, swVars, latentVars, workerVars, settings, env, textVars, ttsVars, clientVars>>

\* textEncOrt.run settles
TextEncReturn(h, ok) ==
    /\ req[h].pc = "textEnc"
    /\ req' = [req EXCEPT ![h] =
                  IF ~ok THEN StageFailed(req[h])
                  ELSE DiffusionLoop([req[h] EXCEPT
                           !.returns = @ + 1, !.step = 0,
                           !.textEmb = req[h].i,
                           !.noisyLatent = [from |-> "noise", unit |-> req[h].i, step |-> -1],
                           !.latentLen = LatentLen(config[1], req[h].durOnnx)])]
    /\ UNCHANGED <<assetVars, dubVars, swVars, latentVars, workerVars, settings, env, textVars, ttsVars, clientVars>>

\* vectorEstOrt.run settles
VectorEstReturn(h, ok) ==
    /\ req[h].pc = "vectorEst"
    /\ req' = [req EXCEPT ![h] =
                  IF ~ok THEN StageFailed(req[h])
                  ELSE DiffusionLoop([req[h] EXCEPT
                           !.returns = @ + 1,
                           !.noisyLatent = NextLatent(@, req[h].i, req[h].step),
                           !.step = @ + 1])]
    /\ UNCHANGED <<assetVars, dubVars, swVars, latentVars, workerVars, settings, env, textVars, ttsVars, clientVars>>

\* vocoderOrt.run settles; the vocoder turns every latent frame into
\* base_chunk_size * chunk_compress_factor samples
VocoderReturn(h, ok) ==
    /\ req[h].pc = "vocoder"
    /\ req' = [req EXCEPT ![h] =
                  IF ~ok THEN StageFailed(req[h])
                  ELSE LET wavLen == req[h].latentLen * config[1].ae.base_chunk_size
                                         * config[1].ttl.chunk_compress_factor
                       IN GenerateLoop(AfterInfer([req[h] EXCEPT !.returns = @ + 1], wavLen))]
    /\ UNCHANGED <<assetVars, dubVars, swVars, latentVars, workerVars, settings, env, textVars, ttsVars, clientVars>>

\* the worker just loaded; the text harness is off
WorkerLoaded ==
    /\ config = <<>> /\ textProcessor = 0
    /\ dpOrt = 0 /\ textEncOrt = 0 /\ vectorEstOrt = 0 /\ vocoderOrt = 0
    /\ initialized = FALSE
    /\ req = [h \in Handlers |-> NoReq]
    /\ txt = <<>> /\ mlen = 0 /\ units = <<>> /\ norm = <<>> /\ tphase = "off"
    /\ LibraryIdle
    /\ HarnessIdle

\* The page as App.tsx drives it: handleProcess awaits init and generate, so one
\* message is in progress at a time; any text, any bundle, any settings.
Init ==
    /\ WorkerLoaded
    /\ settings \in SettingsSet
    /\ env = [handlers |-> {1}, texts |-> Texts, styles |-> VoiceStyles]

Next ==
    \E h \in Handlers :
        \/ OnMessageInit(h)
        \/ \E ok \in BOOLEAN : CreateReturn(h, ok)
        \/ \E text \in Texts, voiceStyleData \in VoiceStyles :
               OnMessageGenerate(h, text, voiceStyleData)
        \/ \E ok \in BOOLEAN, duration \in DurationOutputs : DpReturn(h, ok, duration)
        \/ \E ok \in BOOLEAN : TextEncReturn(h, ok)
        \/ \E ok \in BOOLEAN : VectorEstReturn(h, ok)
        \/ \E ok \in BOOLEAN : VocoderReturn(h, ok)

Spec == Init /\ [][Next]_vars

\* The worker on its own terms: self.onmessage is async, so a message that
\* arrives while an earlier one is awaited is handled in between.  Two
\* invocations at a time, one text of two units, well-formed bundles.
InitOverlap ==
    /\ WorkerLoaded
    /\ settings = [speed |-> 1, silenceDuration |-> 3, endSilenceDuration |-> 5]
    /\ env = [handlers |-> Handlers, texts |-> {<<"a", ".", "\n", "\n", "b", ".">>},
              styles |-> {GoodStyle}]

SpecOverlap == InitOverlap /\ [][Next]_vars


(***************************************************************************)
(* SupertonicTTS (part_002 326-734): init, and generate with its           *)
(* loadVoiceStyle.  The loop of generate over the chunks is the loop of    *)
(* the worker's generate above; here it is one await that settles.         *)
(***************************************************************************)
\* the voice ids a caller asks for, and the bundle the server has for each
VoiceIds == {"F1", "F2"}
VoiceBundle(voiceId) == IF voiceId = "F2" THEN ShortTtlStyle ELSE GoodStyle

\* the keys of voiceMap, in insertion order
VoiceMapIds == <<"F1", "F2", "F3", "F4", "F5", "M1", "M2", "M3", "M4", "M5">>

\* the awaits of the fallback branch of init, in program order
FallbackSteps == <<"fetchConfig", "jsonConfig", "fetchIndexer", "jsonIndexer",
                   "createDp", "createTextEnc", "createVectorEst", "createVocoder">>
StepIndex(pc) == CHOOSE k \in 1..Len(FallbackSteps) : FallbackSteps[k] = pc

\* the assignment that follows the await pc of the fallback branch, by call c
FallbackAssign(t, pc, c) ==
    CASE pc = "jsonConfig" -> [t EXCEPT !.config = 1]
      [] pc = "jsonIndexer" -> [t EXCEPT !.textProcessor = c]
      [] pc = "createDp" -> [t EXCEPT !.dpOrt = c]
      [] pc = "createTextEnc" -> [t EXCEPT !.textEncOrt = c]
      [] pc = "createVectorEst" -> [t EXCEPT !.vectorEstOrt = c]
      [] pc = "createVocoder" -> [t EXCEPT !.vocoderOrt = c]
      [] OTHER -> t

\* Map.prototype.set
MapSet(m, key, value) == [k \in DOMAIN m \cup {key} |-> IF k = key THEN value ELSE m[k]]

\* a method call is over
TtsResolve(r) == [r EXCEPT !.pc = "done", !.outcome = "resolved"]
TtsReject(r) == [r EXCEPT !.pc = "done", !.outcome = "rejected"]

\* the body of init after 'if (this.initialized) return', up to its first await
TtsInitBody(t, r, c, prefetched) ==
    IF prefetched
    THEN <<[t EXCEPT !.config = 1, !.textProcessor = c], [r EXCEPT !.inInit = TRUE, !.pc = "create"]>>
    ELSE <<t, [r EXCEPT !.inInit = TRUE, !.pc = "fetchConfig"]>>

\* loadVoiceStyle up to its first await, and generate after it when the style
\* comes from the Map
TtsLoadVoiceStyle(t, r) ==
    IF r.voiceId \in DOMAIN t.voiceStyles
    THEN [r EXCEPT !.style = t.voiceStyles[r.voiceId], !.hit = TRUE, !.pc = "infer"]
    ELSE [r EXCEPT !.fetched = TRUE, !.pc = "fetchStyle"]

\* the tail of init: the voices are pushed, initialized is set; init returns to
\* its caller, which is generate when the call is a generate
TtsInitTail(t, r) ==
    LET t1 == [t EXCEPT !.availableVoices = @ \o VoiceMapIds, !.initialized = TRUE]
        r1 == [r EXCEPT !.inInit = FALSE]
    IN <<t1, IF r.kind = "init" THEN TtsResolve(r1) ELSE TtsLoadVoiceStyle(t1, r1)>>

TtsFree(c) == tcall[c].pc \in {"idle", "done"}

\* init(prefetchedAssets) is called; prefetched says whether the argument or
\* SupertonicTTS.PrefetchedAssets holds assets
TtsInit(c, prefetched) ==
    /\ tphase = "tts"
    /\ TtsFree(c)
    /\ LET r == [NoTCall EXCEPT !.kind = "init", !.outcome = "pending"]
           s == TtsInitBody(tts, r, c, prefetched)
       IN IF tts.initialized
          THEN /\ tcall' = [tcall EXCEPT ![c] = TtsResolve(r)]
               /\ UNCHANGED tts
          ELSE /\ tts' = s[1]
               /\ tcall' = [tcall EXCEPT ![c] = s[2]]
    /\ UNCHANGED <<assetVars, dubVars, swVars, latentVars, workerVars, req, settings, env, textVars, clientVars>>

\* Promise.all of the four InferenceSession.create of the prefetched branch
\* settles
TtsCreateReturn(c, ok) ==
    /\ tcall[c].pc = "create"
    /\ IF ok
       THEN LET t1 == [tts EXCEPT !.dpOrt = c, !.textEncOrt = c, !.vectorEstOrt = c,
                                  !.vocoderOrt = c]
                s == TtsInitTail(t1, tcall[c])
            IN /\ tts' = s[1]
               /\ tcall' = [tcall EXCEPT ![c] = s[2]]
       ELSE /\ tcall' = [tcall EXCEPT ![c] = TtsReject(@)]
            /\ UNCHANGED tts
    /\ UNCHANGED <<assetVars, dubVars, swVars, latentVars, workerVars, req, settings, env, textVars, clientVars>>

\* an await of the fallback branch of init settles
TtsFallbackReturn(c, ok) ==
    /\ tcall[c].inInit
    /\ tcall[c].pc \in Range(FallbackSteps)
    /\ LET pc == tcall[c].pc
           k == StepIndex(pc)
           t1 == FallbackAssign(tts, pc, c)
           s == TtsInitTail(t1, tcall[c])
       IN IF ~ok
          THEN /\ tcall' = [tcall EXCEPT ![c] = TtsReject(@)]
               /\ UNCHANGED tts
          ELSE IF k < Len(FallbackSteps)
          THEN /\ tts' = t1
               /\ tcall' = [tcall EXCEPT ![c].pc = FallbackSteps[k + 1]]
          ELSE /\ tts' = s[1]
               /\ tcall' = [tcall EXCEPT ![c] = s[2]]
    /\ UNCHANGED <<assetVars, dubVars, swVars, latentVars, workerVars, req, settings, env, textVars, clientVars>>

\* generate(config) is called; prefetched says whether
\* SupertonicTTS.PrefetchedAssets holds assets
TtsGenerate(c, voiceId, prefetched) ==
    /\ tphase = "tts"
    /\ TtsFree(c)
    /\ LET r == [NoTCall EXCEPT !.kind = "generate", !.outcome = "pending", !.voiceId = voiceId,
                                !.known = voiceId \in tts.loaded]
           s == TtsInitBody(tts, r, c, prefetched)
       IN IF tts.initialized
          THEN /\ tcall' = [tcall EXCEPT ![c] = TtsLoadVoiceStyle(tts, r)]
               /\ UNCHANGED tts
          ELSE /\ tts' = s[1]
               /\ tcall' = [tcall EXCEPT ![c] = s[2]]
    /\ UNCHANGED <<assetVars, dubVars, swVars, latentVars, workerVars, req, settings, env, textVars, clientVars>>

\* the fetch of the voice style bundle settles
TtsStyleFetchReturn(c, ok) ==
    /\ tcall[c].pc = "fetchStyle"
    /\ tcall' = [tcall EXCEPT ![c] = IF ok THEN [@ EXCEPT !.pc = "jsonStyle"] ELSE TtsReject(@)]
    /\ UNCHANGED <<assetVars, dubVars, swVars, latentVars, workerVars, req, settings, env, textVars, tts, clientVars>>

\* response.json() settles: the tensors are built, the style is put in the Map
TtsStyleJsonReturn(c, ok) ==
    /\ tcall[c].pc = "jsonStyle"
    /\ LET voiceId == tcall[c].voiceId
           style == loadVoiceStyle(VoiceBundle(voiceId))
       IN IF ok /\ style.ok
          THEN /\ tts' = [tts EXCEPT !.voiceStyles = MapSet(@, voiceId, [style |-> style, by |-> c]),
                                     !.loaded = @ \cup {voiceId}]
               /\ tcall' = [tcall EXCEPT ![c].parsed = TRUE,
                                         ![c].style = [style |-> style, by |-> c],
                                         ![c].pc = "infer"]
          ELSE /\ tcall' = [tcall EXCEPT ![c] = TtsReject([@ EXCEPT !.parsed = ok])]
               /\ UNCHANGED tts
    /\ UNCHANGED <<assetVars, dubVars, swVars, latentVars, workerVars, req, settings, env, textVars, clientVars>>

\* the loop of generate over the chunks ends: with the result, or with the
\* exception of an engine call
TtsInferReturn(c, ok) ==
    /\ tcall[c].pc = "infer"
    /\ tcall' = [tcall EXCEPT ![c] = IF ok THEN TtsResolve(@) ELSE TtsReject(@)]
    /\ UNCHANGED <<assetVars, dubVars, swVars, latentVars, workerVars, req, settings, env, textVars, tts, clientVars>>

\* a page that uses a SupertonicTTS instance directly
InitTts ==
    /\ WorkerIdle
    /\ txt = <<>> /\ mlen = 0 /\ units = <<>> /\ norm = <<>> /\ tphase = "tts"
    /\ HarnessIdle

NextTts ==
    \E c \in TtsCallers :
        \/ \E prefetched \in BOOLEAN : TtsInit(c, prefetched)
        \/ \E ok \in BOOLEAN : TtsCreateReturn(c, ok)
        \/ \E ok \in BOOLEAN : TtsFallbackReturn(c, ok)
        \/ \E voiceId \in VoiceIds, prefetched \in BOOLEAN : TtsGenerate(c, voiceId, prefetched)
        \/ \E ok \in BOOLEAN : TtsStyleFetchReturn(c, ok)
        \/ \E ok \in BOOLEAN : TtsStyleJsonReturn(c, ok)
        \/ \E ok \in BOOLEAN : TtsInferReturn(c, ok)

SpecTts == InitTts /\ [][NextTts]_vars

(***************************************************************************)
(* TTSWorkerClient (part_000 39-173).  chan holds the requests posted to a *)
(* Worker that is alive and has not answered with its last message yet:    *)
(* the type, the Worker, the call that posted it and the number of         *)
(* progress messages it has been answered with.  A worker answers 'init'   *)
(* with 'ready' or 'error' and 'generate' with 'progress' messages and     *)
(* then 'result' or 'error' (App.tsx 1627-1679).                           *)
(***************************************************************************)
\* the 'progress' messages a worker posts for one request
MaxProgress == 2

\* the voices of a 'ready' message
ReadyVoices == <<"F1", "F2", "F3", "F4", "F5", "M1", "M2", "M3", "M4", "M5">>

\* resolve or reject of the promise of call c is called (c = 0: the optional
\* call on null does nothing); a settled promise stays as it is
Settle(cc, c, outcome, by) ==
    IF c # 0 /\ cc[c].outcome = "pending"
    THEN [cc EXCEPT ![c].outcome = outcome, ![c].pc = "done", ![c].by = by]
    ELSE cc

\* call c is the next call made on the client
ClientStart(c) ==
    /\ tphase = "client"
    /\ ccall[c].kind = "none"
    /\ \A d \in 1..(c - 1) : ccall[d].kind # "none"

RemoveAt(s, k) == SubSeq(s, 1, k - 1) \o SubSeq(s, k + 1, Len(s))

\* init(assets) is called
ClientInit(c) ==
    /\ ClientStart(c)
    /\ IF client.initialized
       THEN /\ ccall' = [ccall EXCEPT ![c] = [NoCCall EXCEPT !.kind = "init", !.pc = "done",
                                                           !.outcome = "resolved"]]
            /\ UNCHANGED <<client, chan>>
       ELSE /\ client.created < MaxWorkers
            /\ LET w == client.created + 1
               IN /\ client' = [client EXCEPT !.worker = w, !.created = w,
                                              !.alive = @ \cup {w},
                                              !.pendingResolve = c, !.pendingReject = c]
                  /\ chan' = Append(chan, [type |-> "init", worker |-> w, call |-> c,
                                           progress |-> 0])
            /\ ccall' = [ccall EXCEPT ![c] = [NoCCall EXCEPT !.kind = "init", !.pc = "posted",
                                                           !.outcome = "pending"]]
    /\ UNCHANGED <<assetVars, dubVars, swVars, latentVars, workerVars, req, settings, env, textVars, ttsVars>>

\* generate(config, onProgress) is called, up to the await of fetchVoiceStyle;
\* onProgress says whether a callback is passed
ClientGenerate(c, voiceId, onProgress) ==
    /\ ClientStart(c)
    /\ LET r == [NoCCall EXCEPT !.kind = "generate", !.voiceId = voiceId,
                                !.known = voiceId \in client.loaded]
       IN IF client.worker = 0 \/ ~client.initialized
          THEN /\ ccall' = [ccall EXCEPT ![c] = [r EXCEPT !.pc = "done", !.outcome = "rejected"]]
               /\ UNCHANGED client
          ELSE /\ client' = [client EXCEPT !.progressCallback = IF onProgress THEN c ELSE 0]
               /\ ccall' = [ccall EXCEPT ![c] = [r EXCEPT !.pc = "fetchStyle", !.fetched = TRUE,
                                                          !.outcome = "pending"]]
    /\ UNCHANGED <<assetVars, dubVars, swVars, latentVars, workerVars, req, settings, env, textVars, ttsVars, chan>>

\* the fetch of fetchVoiceStyle settles
ClientStyleFetchReturn(c, ok) ==
    /\ ccall[c].pc = "fetchStyle"
    /\ ccall' = IF ok THEN [ccall EXCEPT ![c].pc = "jsonStyle"] ELSE Settle(ccall, c, "rejected", 0)
    /\ UNCHANGED <<assetVars, dubVars, swVars, latentVars, workerVars, req, settings, env, textVars, ttsVars, client, chan>>

\* response.json() of fetchVoiceStyle settles; generate goes on to its promise
\* and posts 'generate' (this.worker! of a null worker throws in the executor)
ClientStyleJsonReturn(c, ok) ==
    /\ ccall[c].pc = "jsonStyle"
    /\ IF ~ok
       THEN /\ ccall' = Settle(ccall, c, "rejected", 0)
            /\ UNCHANGED <<client, chan>>
       ELSE /\ client' = [client EXCEPT
                             !.pendingResolve = c, !.pendingReject = c,
                             !.loaded = IF client.worker = 0 THEN @ ELSE @ \cup {ccall[c].voiceId}]
            /\ IF client.worker = 0
               THEN /\ ccall' = Settle(ccall, c, "rejected", 0)
                    /\ UNCHANGED chan
               ELSE /\ ccall' = [ccall EXCEPT ![c].pc = "posted"]
                    /\ chan' = Append(chan, [type |-> "generate", worker |-> client.worker,
                                             call |-> c, progress |-> 0])
    /\ UNCHANGED <<assetVars, dubVars, swVars, latentVars, workerVars, req, settings, env, textVars, ttsVars>>

\* the message types a worker can answer request m with now
Answers(m) ==
    IF m.type = "init" THEN {"ready", "error"}
    ELSE {"error"}
         \cup (IF loadVoiceStyle(VoiceBundle(ccall[m.call].voiceId)).ok THEN {"result"} ELSE {})
         \cup (IF m.progress < MaxProgress THEN {"progress"} ELSE {})

\* a worker posts a message of this type for the k-th request of chan, and
\* handleMessage runs
HandleMessage(k, type) ==
    /\ k \in 1..Len(chan)
    /\ type \in Answers(chan[k])
    /\ CASE type = "ready" ->
              /\ client' = [client EXCEPT !.availableVoices = ReadyVoices, !.initialized = TRUE,
                                          !.pendingResolve = 0, !.pendingReject = 0]
              /\ ccall' = Settle(ccall, client.pendingResolve, "resolved", chan[k].call)
              /\ chan' = RemoveAt(chan, k)
         [] type = "progress" ->
              /\ ccall' = IF client.progressCallback # 0
                          THEN [ccall EXCEPT
                                   ![client.progressCallback].progress = @ + 1,
                                   ![client.progressCallback].foreign =
                                       @ \/ client.progressCallback # chan[k].call]
                          ELSE ccall
              /\ chan' = [chan EXCEPT ![k].progress = @ + 1]
              /\ UNCHANGED client
         [] type = "result" ->
              /\ client' = [client EXCEPT !.pendingResolve = 0, !.pendingReject = 0,
                                          !.progressCallback = 0]
              /\ ccall' = Settle(ccall, client.pendingResolve, "resolved", chan[k].call)
              /\ chan' = RemoveAt(chan, k)
         [] type = "error" ->
              /\ client' = [client EXCEPT !.pendingResolve = 0, !.pendingReject = 0,
                                          !.progressCallback = 0]
              /\ ccall' = Settle(ccall, client.pendingReject, "rejected", chan[k].call)
              /\ chan' = RemoveAt(chan, k)
    /\ UNCHANGED <<assetVars, dubVars, swVars, latentVars, workerVars, req, settings, env, textVars, ttsVars>>

\* a worker that is alive raises an error event, and handleError runs
HandleError ==
    /\ client.alive # {}
    /\ client' = [client EXCEPT !.pendingResolve = 0, !.pendingReject = 0,
                                !.progressCallback = 0]
    /\ ccall' = Settle(ccall, client.pendingReject, "rejected", 0)
    /\ UNCHANGED <<assetVars, dubVars, swVars, latentVars, workerVars, req, settings, env, textVars, ttsVars, chan>>

\* terminate() is called
Terminate ==
    /\ tphase = "client"
    /\ IF client.worker # 0
       THEN /\ client' = [client EXCEPT !.worker = 0, !.initialized = FALSE,
                                        !.availableVoices = <<>>,
                                        !.alive = @ \ {client.worker}, !.loaded = {}]
            /\ chan' = SelectSeq(chan, LAMBDA m : m.worker # client.worker)
       ELSE UNCHANGED <<client, chan>>
    /\ UNCHANGED <<assetVars, dubVars, swVars, latentVars, workerVars, req, settings, env, textVars, ttsVars, ccall>>

\* a page that uses a TTSWorkerClient
InitClient ==
    /\ WorkerIdle
    /\ txt = <<>> /\ mlen = 0 /\ units = <<>> /\ norm = <<>> /\ tphase = "client"
    /\ HarnessIdle

NextClient ==
    \/ \E c \in ClientCalls : ClientInit(c)
    \/ \E c \in ClientCalls, voiceId \in VoiceIds, onProgress \in BOOLEAN :
           ClientGenerate(c, voiceId, onProgress)
    \/ \E c \in ClientCalls, ok \in BOOLEAN : ClientStyleFetchReturn(c, ok)
    \/ \E c \in ClientCalls, ok \in BOOLEAN : ClientStyleJsonReturn(c, ok)
    \/ \E k \in 1..MaxClientCalls, type \in {"ready", "progress", "result", "error"} :
           HandleMessage(k, type)
    \/ HandleError
    \/ Terminate

SpecClient == InitClient /\ [][NextClient]_vars

(***************************************************************************)
(* formatSRTTime, generateSRT (App.tsx 1344-1368, part_002 708-732).       *)
(* In the subtitle harness a time is a whole number of eighths of a        *)
(* second: those are the seconds a double holds exactly, so that           *)
(* (seconds % 1) * 1000 is computed without rounding.                      *)
(***************************************************************************)
EighthsPerSecond == 8
MillisPerEighth == 1000 \div EighthsPerSecond

\* String(n) of a natural number
DigitChars == <<"0", "1", "2", "3", "4", "5", "6", "7", "8", "9">>
RECURSIVE NumberToString(_)
NumberToString(n) ==
    IF n < 10 THEN <<DigitChars[n + 1]>>
    ELSE NumberToString(n \div 10) \o <<DigitChars[(n % 10) + 1]>>

\* String.prototype.padStart
RECURSIVE PadStart(_, _, _)
PadStart(s, targetLength, padChar) ==
    IF Len(s) >= targetLength THEN s ELSE PadStart(<<padChar>> \o s, targetLength, padChar)

formatSRTTime(seconds) ==
    LET hours == seconds \div (3600 * EighthsPerSecond)
        minutes == (seconds % (3600 * EighthsPerSecond)) \div (60 * EighthsPerSecond)
        secs == (seconds % (60 * EighthsPerSecond)) \div EighthsPerSecond
        millis == (seconds % EighthsPerSecond) * MillisPerEighth
    IN PadStart(NumberToString(hours), 2, "0") \o <<":">>
       \o PadStart(NumberToString(minutes), 2, "0") \o <<":">>
       \o PadStart(NumberToString(secs), 2, "0") \o <<",">>
       \o PadStart(NumberToString(millis), 3, "0")

\* Array.prototype.join('\n')
RECURSIVE JoinLines(_)
JoinLines(lines) ==
    IF lines = <<>> THEN <<>>
    ELSE IF Len(lines) = 1 THEN lines[1]
    ELSE lines[1] \o <<"\n">> \o JoinLines(Tail(lines))

\* the four lines generateSRT pushes for timestamps[i + 1]
SrtBlock(ts, i) ==
    << NumberToString(i + 1),
       formatSRTTime(ts.start) \o <<" ", "-", "-", ">", " ">> \o formatSRTTime(ts.end),
       ts.text,
       <<>> >>

RECURSIVE SrtLines(_, _)
SrtLines(tss, i) ==
    IF i >= Len(tss) THEN <<>> ELSE SrtBlock(tss[i + 1], i) \o SrtLines(tss, i + 1)

generateSRT(tss) == JoinLines(SrtLines(tss, 0))

(***************************************************************************)
(* Harness of the subtitle serializer: generateSRT applied to the          *)
(* timestamp lists generate builds (App.tsx 1588-1604) from up to          *)
(* MaxSrtUnits durations                                                   *)
(***************************************************************************)
MaxSrtUnits == 3

\* durations and silences in eighths of a second: nothing, 1/8 s, 59.875 s, 1 h
SrtDurations == {0, 1, 479, 28800}
SrtSilences == {0, 3}

\* the texts of the units, by index
SrtTexts == << <<"a", ".">>, <<"b", " ", "c", "?">>, <<"d">> >>

\* the timestamps generate pushes for these durations
RECURSIVE TimestampsOf(_, _, _, _)
TimestampsOf(durs, silenceDuration, i, currentTime) ==
    IF i >= Len(durs) THEN <<>>
    ELSE <<[text |-> SrtTexts[i + 1], start |-> currentTime, end |-> currentTime + durs[i + 1]]>>
         \o TimestampsOf(durs, silenceDuration, i + 1,
                NextCurrentTime(currentTime, durs[i + 1], silenceDuration))

InitSrt ==
    /\ WorkerIdle
    /\ txt = <<>> /\ mlen = 0 /\ units = <<>> /\ norm = <<>> /\ tphase = "input"
    /\ \E n \in 0..MaxSrtUnits, silenceDuration \in SrtSilences :
          \E durs \in [1..n -> SrtDurations] :
              timestamps = TimestampsOf(durs, silenceDuration, 0, 0)
    /\ srt = <<>>
    /\ textList = <<>> /\ textIds = <<>> /\ textMask = <<>>
    /\ latentInput = <<>> /\ noisyLatent = <<>> /\ latentMask = <<>>
    /\ sw = NoServiceWorker

Serialize ==
    /\ tphase = "input"
    /\ srt' = generateSRT(timestamps)
    /\ tphase' = "serialized"
    /\ UNCHANGED <<assetVars, dubVars, swVars, latentVars, workerVars, req, settings, env, ttsVars, clientVars, txt, mlen, units, norm,
                   timestamps, textList, textIds, textMask>>

NextSrt == Serialize
SpecSrt == InitSrt /\ [][NextSrt]_vars

(***************************************************************************)
(* UnicodeProcessor.call, lengthToMask (App.tsx 1248-1283)                 *)
(***************************************************************************)
\* the two code units of a character outside the Basic Multilingual Plane
\* (U+20000 is U+D840 U+DC00; NFKD and the emoji pattern leave it alone)
HighSurrogates == {"U+D840"}
LowSurrogates == {"U+DC00"}

\* this.indexer[code] || 0 with the indexer of the assets: the characters the
\* model knows have an index, every other code gives undefined
Indexer(c) ==
    CASE c = " " -> 1
      [] c = "." -> 2
      [] c = "a" -> 5
      [] OTHER -> 0

\* Array.from(text).map(char => char.charCodeAt(0)): the string iterator
\* yields a surrogate pair as one element, and charCodeAt(0) is its first unit
RECURSIVE textToUnicodeValues(_)
textToUnicodeValues(text) ==
    IF text = <<>> THEN <<>>
    ELSE IF Len(text) >= 2 /\ text[1] \in HighSurrogates /\ text[2] \in LowSurrogates
         THEN <<text[1]>> \o textToUnicodeValues(SubSeq(text, 3, Len(text)))
         ELSE <<text[1]>> \o textToUnicodeValues(Tail(text))

\* lengthToMask(lengths) with maxLen = null
lengthToMask(lengths) ==
    LET mLen == Max(Range(lengths))
    IN [i \in 1..Len(lengths) |-> << [j \in 1..mLen |-> IF j - 1 < lengths[i] THEN 1 ELSE 0] >>]

\* the row of textIds for one processed text
TextIdsRow(processed, maxLen) ==
    LET unicodeVals == textToUnicodeValues(processed)
    IN [j \in 1..maxLen |-> IF j <= Len(unicodeVals) THEN Indexer(unicodeVals[j]) ELSE 0]

\* UnicodeProcessor.call for a batch of at least one text
UnicodeProcessorCall(list) ==
    LET processedTexts == [i \in 1..Len(list) |-> preprocessText(list[i])]
        textIdsLengths == [i \in 1..Len(list) |-> Len(processedTexts[i])]
        maxLen == Max(Range(textIdsLengths))
    IN [textIds |-> [i \in 1..Len(list) |-> TextIdsRow(processedTexts[i], maxLen)],
        textMask |-> lengthToMask(textIdsLengths)]

(***************************************************************************)
(* Harness of the symbol encoder: UnicodeProcessor.call applied to every   *)
(* batch of up to MaxBatch texts of up to MaxEncText characters            *)
(***************************************************************************)
MaxBatch == 2
MaxEncText == 2
EncAlphabet == {"a", ".", "q", "U+D840", "U+DC00"}

InitEnc ==
    /\ WorkerIdle
    /\ txt = <<>> /\ mlen = 0 /\ units = <<>> /\ norm = <<>> /\ tphase = "input"
    /\ timestamps = <<>> /\ srt = <<>>
    /\ \E bsz \in 1..MaxBatch : textList \in [1..bsz -> Strings(EncAlphabet, MaxEncText)]
    /\ textIds = <<>> /\ textMask = <<>>
    /\ latentInput = <<>> /\ noisyLatent = <<>> /\ latentMask = <<>>
    /\ sw = NoServiceWorker

Encode ==
    /\ tphase = "input"
    /\ textIds' = UnicodeProcessorCall(textList).textIds
    /\ textMask' = UnicodeProcessorCall(textList).textMask
    /\ tphase' = "encoded"
    /\ UNCHANGED <<assetVars, dubVars, swVars, latentVars, workerVars, req, settings, env, ttsVars, clientVars, txt, mlen, units, norm,
                   timestamps, srt, textList>>

NextEnc == Encode
SpecEnc == InitEnc /\ [][NextEnc]_vars

(***************************************************************************)
(* sampleNoisyLatent, getLatentMask (App.tsx 1285-1291, 1425-1463) for a   *)
(* batch of durations that are not whole ticks.  A duration is a whole     *)
(* number of DurationDen-ths of a tick, so that duration * sample_rate is  *)
(* a multiple of 1/DurationDen: a double holds it exactly, and the floor   *)
(* of a quotient is integer division of numerator by denominator.          *)
(***************************************************************************)
DurationDen == 8

\* Math.floor(d * sample_rate)
WavLength(cfg, d) == (d * cfg.ae.sample_rate) \div DurationDen

\* Math.floor((wavLenMax + chunkSize - 1) / chunkSize) with
\* wavLenMax = Math.max(...duration) * sample_rate, not floored
SampledLatentLen(cfg, duration) ==
    LET chunkSize == cfg.ae.base_chunk_size * cfg.ttl.chunk_compress_factor
    IN (Max(Range(duration)) * cfg.ae.sample_rate + DurationDen * (chunkSize - 1))
           \div (DurationDen * chunkSize)

getLatentMask(wavLengths, baseChunkSize, chunkCompressFactor) ==
    LET latentSize == baseChunkSize * chunkCompressFactor
        latentLengths == [b \in 1..Len(wavLengths) |->
                             (wavLengths[b] + latentSize - 1) \div latentSize]
    IN lengthToMask(latentLengths)

\* an element of the latent is 0 or "noise", a sample of the normal
\* distribution (not 0); noise times 1 is noise, noise times 0 is 0
TimesMask(x, m) == IF m = 0 THEN 0 ELSE x

\* sampleNoisyLatent for a batch of at least one duration
sampleNoisyLatent(cfg, duration) ==
    LET wavLengths == [b \in 1..Len(duration) |-> WavLength(cfg, duration[b])]
        latentLen == SampledLatentLen(cfg, duration)
        latentDim == cfg.ttl.latent_dim * cfg.ttl.chunk_compress_factor
        mask == getLatentMask(wavLengths, cfg.ae.base_chunk_size, cfg.ttl.chunk_compress_factor)
    IN [noisyLatent |->
            [b \in 1..Len(duration) |->
                [d \in 1..latentDim |->
                    [t \in 1..latentLen |->
                        IF t - 1 < Len(mask[b][1]) THEN TimesMask("noise", mask[b][1][t])
                        ELSE "noise"]]],
        latentMask |-> mask]

(***************************************************************************)
(* Harness of the diffusion sampler's start: sampleNoisyLatent applied to  *)
(* every batch of up to MaxBatch durations                                 *)
(***************************************************************************)
\* durations in DurationDen-ths of a tick: with 4 samples a tick these are 0,
\* 1.5, 6, 12.5, 13, 24 and 24.5 samples
LatentDurations == {0, 3, 12, 25, 26, 48, 49}

InitLatent ==
    /\ WorkerIdle
    /\ txt = <<>> /\ mlen = 0 /\ units = <<>> /\ norm = <<>> /\ tphase = "input"
    /\ timestamps = <<>> /\ srt = <<>>
    /\ textList = <<>> /\ textIds = <<>> /\ textMask = <<>>
    /\ sw = NoServiceWorker
    /\ \E bsz \in 1..MaxBatch : latentInput \in [1..bsz -> LatentDurations]
    /\ noisyLatent = <<>> /\ latentMask = <<>>

Sample ==
    /\ tphase = "input"
    /\ latentInput # <<>>
    /\ noisyLatent' = sampleNoisyLatent(AssetConfig, latentInput).noisyLatent
    /\ latentMask' = sampleNoisyLatent(AssetConfig, latentInput).latentMask
    /\ tphase' = "sampled"
    /\ UNCHANGED <<assetVars, dubVars, swVars, workerVars, req, settings, env, ttsVars, clientVars, txt, mlen, units,
                   norm, timestamps, srt, textList, textIds, textMask, latentInput>>

NextLatentHarness == Sample
SpecLatent == InitLatent /\ [][NextLatentHarness]_vars

(***************************************************************************)
(* The service worker (public/sw.js).  A URL is its pathname, a sequence   *)
(* of tokens: "/", a name, or an extension with its dot.  Cache Storage is *)
(* a function from the names of the caches that exist to the pathnames     *)
(* each holds a response for.  It outlives the worker: a worker that       *)
(* installs may find caches of an earlier registration.                    *)
(***************************************************************************)
CACHE_NAME == "dubstack-assets-v1"
ASSETS_TO_CACHE_EXTENSIONS == {".onnx", ".wasm", ".mp4", ".json"}

\* the caches Cache Storage can hold when the worker installs
CacheNames == {CACHE_NAME, "dubstack-assets-v0"}

\* the requests of the page
Pathnames == { <<"/", "models", "/", "dp", ".bin">>,
               <<"/", "voices", "/", "F1", ".json">>,
               <<"/", "index", ".html">> }
Methods == {"GET", "POST"}
\* the status of a network response
Statuses == {200, 206, 404}

\* String.prototype.endsWith, for an extension token
EndsWith(pathname, ext) == pathname # <<>> /\ Last(pathname) = ext

isCachableAsset(pathname) ==
    \/ \E ext \in ASSETS_TO_CACHE_EXTENSIONS : EndsWith(pathname, ext)
    \/ Includes(pathname, <<"/", "models", "/">>)
    \/ Includes(pathname, <<"/", "videos", "/">>)

\* the test of the activate listener on one cache name
ShouldDeleteEvery(cacheName) == TRUE
ShouldDelete(cacheName) == cacheName # CACHE_NAME

\* the status test before cache.put
ShouldPutAny(status) == TRUE
ShouldPut(status) == status = 200 \/ status = 206

\* Cache.put rejects a partial response (status 206) with a TypeError
PutAccepted(status) == status # 206

\* the fetch events that can be in progress at the same time
SwHandlers == {1, 2}

\* one fetch event.  hadEntry, fetched and status are history: the cache held
\* a response for the request when the event was dispatched, the listener
\* called fetch, the status of the network response (0: none).  answer is
\* what the page gets: "cache", "network", "error"
\* (respondWith was given a promise that rejected), or "default" (the
\* listener did not call respondWith and the browser handles the request).
NoEvent == [pc |-> "idle", url |-> <<>>, method |-> "", hadEntry |-> FALSE,
            fetched |-> FALSE, status |-> 0, answer |-> "none"]

Stored(url) == CACHE_NAME \in DOMAIN sw.caches /\ url \in sw.caches[CACHE_NAME]

\* the install listener: skipWaiting
Install ==
    /\ sw.state = "parsed"
    /\ sw' = [sw EXCEPT !.state = "installed"]
    /\ UNCHANGED <<assetVars, dubVars, latentVars, workerVars, req, settings, env, textVars, ttsVars, clientVars>>

\* the activate listener: caches.keys() settles
ActivateKeys ==
    /\ sw.state = "installed"
    /\ sw' = [sw EXCEPT !.state = "activating", !.cacheNames = DOMAIN sw.caches]
    /\ UNCHANGED <<assetVars, dubVars, latentVars, workerVars, req, settings, env, textVars, ttsVars, clientVars>>

\* the activate listener: Promise.all of the caches.delete calls settles
ActivateDelete ==
    /\ sw.state = "activating"
    /\ LET deleted == {cacheName \in sw.cacheNames : ShouldDelete(cacheName)}
       IN sw' = [sw EXCEPT !.state = "activated",
                           !.caches = [n \in DOMAIN sw.caches \ deleted |-> sw.caches[n]]]
    /\ UNCHANGED <<assetVars, dubVars, latentVars, workerVars, req, settings, env, textVars, ttsVars, clientVars>>

\* the fetch listener, up to the await of caches.open
FetchEvent(h, url, method) ==
    /\ sw.state = "activated"
    /\ sw.ev[h].pc \in {"idle", "done"}
    /\ LET e == [NoEvent EXCEPT !.url = url, !.method = method, !.hadEntry = Stored(url)]
       IN sw' = [sw EXCEPT !.ev[h] =
                     IF isCachableAsset(url) /\ method = "GET"
                     THEN [e EXCEPT !.pc = "open"]
                     ELSE [e EXCEPT !.pc = "done", !.answer = "default"]]
    /\ UNCHANGED <<assetVars, dubVars, latentVars, workerVars, req, settings, env, textVars, ttsVars, clientVars>>

\* caches.open(CACHE_NAME) settles: the cache is created if it does not exist
OpenReturn(h) ==
    /\ sw.state = "activated"
    /\ sw.ev[h].pc = "open"
    /\ sw' = [sw EXCEPT !.ev[h].pc = "match",
                        !.caches = IF CACHE_NAME \in DOMAIN @ THEN @ ELSE MapSet(@, CACHE_NAME, {})]
    /\ UNCHANGED <<assetVars, dubVars, latentVars, workerVars, req, settings, env, textVars, ttsVars, clientVars>>

\* cache.match(event.request) settles: the response of the cache, or fetch
MatchReturn(h) ==
    /\ sw.state = "activated"
    /\ sw.ev[h].pc = "match"
    /\ sw' = [sw EXCEPT !.ev[h] =
                  IF Stored(sw.ev[h].url)
                  THEN [@ EXCEPT !.pc = "done", !.answer = "cache"]
                  ELSE [@ EXCEPT !.pc = "fetch", !.fetched = TRUE]]
    /\ UNCHANGED <<assetVars, dubVars, latentVars, workerVars, req, settings, env, textVars, ttsVars, clientVars>>

\* fetch(event.request) settles: with a response of this status, or rejected
NetworkReturn(h, ok, status) ==
    /\ sw.state = "activated"
    /\ sw.ev[h].pc = "fetch"
    /\ sw' = IF ~ok
             THEN [sw EXCEPT !.ev[h].pc = "done", !.ev[h].answer = "error"]
             ELSE [sw EXCEPT !.ev[h].pc = "done", !.ev[h].answer = "network",
                             !.ev[h].status = status,
                             !.puts = IF ShouldPut(status)
                                      THEN @ \cup {[url |-> sw.ev[h].url, status |-> status]}
                                      ELSE @]
    /\ UNCHANGED <<assetVars, dubVars, latentVars, workerVars, req, settings, env, textVars, ttsVars, clientVars>>

\* a cache.put settles (nothing awaits it): the response is stored, or the put
\* failed
PutSettle(p, ok) ==
    /\ sw.state = "activated"
    /\ p \in sw.puts
    /\ sw' = IF ok /\ PutAccepted(p.status) /\ CACHE_NAME \in DOMAIN sw.caches
             THEN [sw EXCEPT !.puts = @ \ {p},
                             !.caches[CACHE_NAME] = @ \cup {p.url},
                             !.stored = @ \cup {p.url}]
             ELSE [sw EXCEPT !.puts = @ \ {p}]
    /\ UNCHANGED <<assetVars, dubVars, latentVars, workerVars, req, settings, env, textVars, ttsVars, clientVars>>

\* the caches an earlier registration can have left
CacheablePathnames == {p \in Pathnames : isCachableAsset(p)}
InitialCaches == UNION {[names -> SUBSET CacheablePathnames] : names \in SUBSET CacheNames}

\* the worker script has been fetched and parsed
InitSw ==
    /\ WorkerIdle
    /\ txt = <<>> /\ mlen = 0 /\ units = <<>> /\ norm = <<>> /\ tphase = "off"
    /\ timestamps = <<>> /\ srt = <<>>
    /\ textList = <<>> /\ textIds = <<>> /\ textMask = <<>>
    /\ latentInput = <<>> /\ noisyLatent = <<>> /\ latentMask = <<>>
    /\ \E c \in InitialCaches :
           sw = [state |-> "parsed", caches |-> c, cacheNames |-> {},
                 ev |-> [h \in SwHandlers |-> NoEvent], puts |-> {}, stored |-> {}]

NextSw ==
    \/ Install
    \/ ActivateKeys
    \/ ActivateDelete
    \/ \E h \in SwHandlers, url \in Pathnames, method \in Methods : FetchEvent(h, url, method)
    \/ \E h \in SwHandlers : OpenReturn(h)
    \/ \E h \in SwHandlers : MatchReturn(h)
    \/ \E h \in SwHandlers, ok \in BOOLEAN, status \in Statuses : NetworkReturn(h, ok, status)
    \/ \E url \in Pathnames, status \in Statuses, ok \in BOOLEAN :
           PutSettle([url |-> url, status |-> status], ok)

SpecSw == InitSw /\ [][NextSw]_vars

(***************************************************************************)
(* The asset loader (lib/assetLoader.ts) driven by the page's              *)
(* handleProcess (App.tsx 158-272).  Each of the four loaders of           *)
(* loadAllAssets is a chain of awaits that assigns nothing before its last *)
(* await has settled, so the settling of its promise is one step.  A       *)
(* loader that finds its group in cachedAssets returns at once, and its    *)
(* updateProgress runs before any other event.  The part of                *)
(* handleProcess after loadAllAssets is the four awaits it goes through:   *)
(* client.init, client.generate, dubber.load and dubber.dub.               *)
(***************************************************************************)
\* the video and the subtitle font the user has selected when the button is
\* clicked
Selections == {<<"a.mp4", "fonts/Arial.ttf">>, <<"b.mp4", "fonts/Inter.ttf">>}

\* 'const totalSteps = 4' of loadAllAssets
totalSteps == 4

\* the test each loader makes on cachedAssets before it fetches; loadVideoFile
\* makes none
Cached(cache, g) ==
    CASE g = "tts" -> cache.tts
      [] g = "ffmpeg" -> cache.ffmpeg
      [] g = "font" -> cache.font # ""
      [] OTHER -> FALSE

\* a loader of a call returns: loadFontFile from cachedAssets when hit is
\* true, else with what it fetched
LoaderResult(cache, r, g, hit) ==
    CASE g = "video" -> [r EXCEPT !.pc[g] = "loaded", !.video = r.videoName]
      [] g = "font" -> [r EXCEPT !.pc[g] = "loaded",
                                 !.font = IF hit THEN cache.font ELSE r.fontPath]
      [] OTHER -> [r EXCEPT !.pc[g] = "loaded"]

\* the assignment to cachedAssets a loader of call c makes after its last await
StoreAsset(cache, r, c, g) ==
    CASE g = "tts" -> [cache EXCEPT !.tts = TRUE]
      [] g = "ffmpeg" -> [cache EXCEPT !.ffmpeg = TRUE]
      [] g = "font" -> [cache EXCEPT !.font = r.fontPath]
      [] OTHER -> cache

\* Math.round((completedSteps / totalSteps) * 100)
ProgressOf(completedSteps) == (200 * completedSteps + totalSteps) \div (2 * totalSteps)

\* updateProgress(stepName) of a call: completedSteps++, onProgress(progress)
updateProgress(r) ==
    [r EXCEPT !.completedSteps = @ + 1,
              !.reports = Append(@, ProgressOf(r.completedSteps + 1)),
              !.late = @ \/ r.outcome = "rejected"]

\* the callback handleProcess passes to loadAllAssets
OnLoadProgress(p, progress) == [p EXCEPT !.stage = "loading-assets", !.progress = progress]

\* the loaders of a call that has just started, in the order of Promise.all:
\* k groups done, the rest to do
RECURSIVE StartLoaders(_, _, _, _)
StartLoaders(cache, r, c, k) ==
    IF k > Len(AssetGroups) THEN r
    ELSE LET g == AssetGroups[k]
             r1 == IF Cached(cache, g)
                   THEN updateProgress(LoaderResult(cache, r, g, TRUE))
                   ELSE [r EXCEPT !.pc[g] = "loading", !.fetched = @ \cup {g}]
         IN StartLoaders(cache, r1, c, k + 1)

\* the user clicks the button: handleProcess runs up to its await of
\* loadAllAssets(videoName, fontPath, onProgress); the button is disabled
\* while a run is in progress
HandleProcess(c, videoName, fontPath) ==
    /\ tphase = "assets"
    /\ lcall[c].outcome = "none"
    /\ \A d \in 1..(c - 1) : lcall[d].outcome # "none"
    /\ processing.stage \in {"idle", "complete", "error"}
    /\ LET r0 == [NoLCall EXCEPT !.videoName = videoName, !.fontPath = fontPath,
                                 !.reports = <<0>>, !.afterClear = cachedAssets.cleared,
                                 !.outcome = "pending"]
           r == StartLoaders(cachedAssets, r0, c, 1)
       IN /\ lcall' = [lcall EXCEPT ![c] = r]
          /\ processing' = [stage |-> "loading-assets", progress |-> r.reports[Len(r.reports)],
                            run |-> c, pc |-> "loading"]
    /\ cachedAssets' = [cachedAssets EXCEPT !.cleared = FALSE]
    /\ UNCHANGED <<dubVars, swVars, latentVars, workerVars, req, settings, env, textVars, ttsVars,
                   clientVars>>

\* the loader of group g of call c settles: one of its awaits has thrown, or
\* its last await has settled.  A loader that throws rejects the Promise.all,
\* loadAllAssets and the await of handleProcess, whose catch sets the 'error'
\* stage; the other loaders go on.  The last loader to return resolves
\* loadAllAssets, and handleProcess goes on to client.init.  A loader that
\* throws after the rejection changes nothing that is read afterwards: it is
\* left as a loader that does not return.
LoaderReturn(c, g, ok) ==
    /\ lcall[c].pc[g] = "loading"
    /\ ok \/ lcall[c].outcome = "pending"
    /\ LET r == lcall[c]
           r1 == updateProgress(LoaderResult(cachedAssets, r, g, FALSE))
           all == \A x \in DOMAIN r1.pc : r1.pc[x] = "loaded"
       IN IF ~ok
          THEN /\ lcall' = [lcall EXCEPT ![c].pc[g] = "failed", ![c].outcome = "rejected"]
               /\ processing' = [processing EXCEPT !.stage = "error", !.progress = 0,
                                                   !.pc = "done"]
               /\ UNCHANGED cachedAssets
          ELSE /\ cachedAssets' = StoreAsset(cachedAssets, r, c, g)
               /\ lcall' = [lcall EXCEPT ![c] =
                               IF all THEN [r1 EXCEPT !.reports = Append(@, 100),
                                                      !.outcome = "resolved"]
                               ELSE r1]
               /\ processing' =
                      LET p == OnLoadProgress(processing, ProgressOf(r1.completedSteps))
                      IN IF all THEN [OnLoadProgress(p, 100) EXCEPT !.pc = "init"] ELSE p
    /\ UNCHANGED <<dubVars, swVars, latentVars, workerVars, req, settings, env, textVars, ttsVars,
                   clientVars>>

\* the stage handleProcess sets before each of its awaits after loadAllAssets
ProcessSteps == <<"init", "generate", "load", "dub">>
StageBefore(pc) ==
    CASE pc = "generate" -> "generating-audio"
      [] pc = "load" -> "processing-video"
      [] pc = "dub" -> "processing-video"

\* the await handleProcess is at settles: it goes on to the next await, to
\* 'complete' after the last one, or to its catch
ProcessReturn(ok) ==
    /\ processing.pc \in Range(ProcessSteps)
    /\ LET k == CHOOSE j \in 1..Len(ProcessSteps) : ProcessSteps[j] = processing.pc
       IN processing' =
              IF ~ok THEN [processing EXCEPT !.stage = "error", !.progress = 0, !.pc = "done"]
              ELSE IF k < Len(ProcessSteps)
              THEN [processing EXCEPT !.stage = StageBefore(ProcessSteps[k + 1]),
                                      !.progress = 0, !.pc = ProcessSteps[k + 1]]
              ELSE [processing EXCEPT !.stage = "complete", !.progress = 100, !.pc = "done"]
    /\ UNCHANGED <<cachedAssets, lcall, dubVars, swVars, latentVars, workerVars, req, settings,
                   env, textVars, ttsVars, clientVars>>

\* clearAssetCache() is called, while the page shows no run in progress
ClearAssetCache ==
    /\ tphase = "assets"
    /\ processing.stage \in {"idle", "complete", "error"}
    /\ cachedAssets' = [AssetsEmpty EXCEPT !.cleared = TRUE]
    /\ UNCHANGED <<lcall, processing, dubVars, swVars, latentVars, workerVars, req, settings,
                   env, textVars, ttsVars, clientVars>>

\* a page that has just been opened
InitAssets ==
    /\ WorkerIdle
    /\ txt = <<>> /\ mlen = 0 /\ units = <<>> /\ norm = <<>> /\ tphase = "assets"
    /\ HarnessIdle

NextAssets ==
    \/ \E c \in LoadCalls, s \in Selections : HandleProcess(c, s[1], s[2])
    \/ \E c \in LoadCalls, g \in Range(AssetGroups), ok \in BOOLEAN : LoaderReturn(c, g, ok)
    \/ \E ok \in BOOLEAN : ProcessReturn(ok)
    \/ ClearAssetCache

SpecAssets == InitAssets /\ [][NextAssets]_vars

(***************************************************************************)
(* FFmpegDubber (lib/ffmpeg/dubber.ts 33-285).  Each await of dub that     *)
(* settles is one step.  The virtual filesystem behaves as a filesystem:   *)
(* writeFile creates or replaces the file, readFile and deleteFile of a    *)
(* file that is absent throw, and exec, which the -y flag lets replace     *)
(* output.mp4, writes no output when an input is absent.  exec reports a   *)
(* failed command either by throwing or by a non-zero return value, which  *)
(* dub does not look at.                                                   *)
(***************************************************************************)
\* the awaits of dub, in program order; load is skipped when this.loaded
DubSteps == <<"load", "fetchFile", "writeInput", "writeAudio", "writeSrt", "exec", "readFile",
              "delInput", "delAudio", "delSrt", "delOutput">>

\* the files ffmpeg.exec is told to read
DubInputs == {"input.mp4", "audio.wav", "subtitles.srt"}

\* the file an await of dub writes or deletes
StepFile(pc) ==
    CASE pc \in {"writeInput", "delInput"} -> "input.mp4"
      [] pc \in {"writeAudio", "delAudio"} -> "audio.wav"
      [] pc \in {"writeSrt", "delSrt"} -> "subtitles.srt"
      [] pc \in {"exec", "readFile", "delOutput"} -> "output.mp4"

\* whether the await at pc of a call can succeed on this filesystem
CanSucceed(fs, pc) ==
    CASE pc = "exec" -> \A f \in DubInputs : fs[f] # 0
      [] pc \in {"readFile", "delInput", "delAudio", "delSrt", "delOutput"} -> fs[StepFile(pc)] # 0
      [] OTHER -> TRUE

\* the dubber after the await at pc of call c has succeeded
AfterStep(d, pc, c) ==
    CASE pc = "load" -> [d EXCEPT !.loaded = TRUE]
      [] pc \in {"writeInput", "writeAudio", "writeSrt", "exec"} -> [d EXCEPT !.fs[StepFile(pc)] = c]
      [] pc \in {"delInput", "delAudio", "delSrt", "delOutput"} -> [d EXCEPT !.fs[StepFile(pc)] = 0]
      [] OTHER -> d

\* the files the await at pc reads, with the call that wrote each
ReadsOf(r, fs, pc) ==
    CASE pc = "exec" -> [r EXCEPT !.reads = [f \in DOMAIN @ |-> IF f \in DubInputs THEN fs[f] ELSE @[f]]]
      [] pc = "readFile" -> [r EXCEPT !.reads["output.mp4"] = fs["output.mp4"]]
      [] OTHER -> r

\* dub(config, onProgress) is called, up to its first await
Dub(c) ==
    /\ tphase = "dub"
    /\ dcall[c].pc = "idle"
    /\ \A d \in DubCalls : d < c => dcall[d].pc # "idle"
    /\ dcall' = [dcall EXCEPT ![c] = [NoDCall EXCEPT
                     !.pc = IF dubber.loaded THEN "fetchFile" ELSE "load",
                     !.outcome = "pending",
                     !.after = {d \in DubCalls : dcall[d].pc = "done"}]]
    /\ UNCHANGED <<dubber, assetVars, swVars, latentVars, workerVars, req, settings, env, textVars,
                   ttsVars, clientVars>>

\* the await dub is at settles: dub goes on to its next await, returns the
\* blob after the last one, or throws what the await threw
DubReturn(c, ok) ==
    /\ dcall[c].pc \in Range(DubSteps)
    /\ LET pc == dcall[c].pc
           k == CHOOSE j \in 1..Len(DubSteps) : DubSteps[j] = pc
           r == ReadsOf(dcall[c], dubber.fs, pc)
       IN IF ok /\ CanSucceed(dubber.fs, pc)
          THEN /\ dubber' = AfterStep(dubber, pc, c)
               /\ dcall' = [dcall EXCEPT ![c] =
                               IF k < Len(DubSteps) THEN [r EXCEPT !.pc = DubSteps[k + 1]]
                               ELSE [r EXCEPT !.pc = "done", !.outcome = "resolved"]]
          ELSE /\ dcall' = [dcall EXCEPT ![c].pc = "done", ![c].outcome = "rejected"]
               /\ UNCHANGED dubber
    /\ UNCHANGED <<assetVars, swVars, latentVars, workerVars, req, settings, env, textVars,
                   ttsVars, clientVars>>

\* ffmpeg.exec resolves with a non-zero return value: the command has failed
\* and written no output, and dub goes on to readFile
DubExecNonZero(c) ==
    /\ dcall[c].pc = "exec"
    /\ dcall' = [dcall EXCEPT ![c] = [ReadsOf(@, dubber.fs, "exec") EXCEPT !.pc = "readFile"]]
    /\ UNCHANGED <<dubber, assetVars, swVars, latentVars, workerVars, req, settings, env, textVars,
                   ttsVars, clientVars>>

\* a page that has the dubber of getFFmpegDubber()
InitDub ==
    /\ WorkerIdle
    /\ txt = <<>> /\ mlen = 0 /\ units = <<>> /\ norm = <<>> /\ tphase = "dub"
    /\ HarnessIdle

NextDub ==
    \E c \in DubCalls :
        \/ Dub(c)
        \/ \E ok \in BOOLEAN : DubReturn(c, ok)
        \/ DubExecNonZero(c)

SpecDub == InitDub /\ [][NextDub]_vars

(***************************************************************************)
(* Properties                                                              *)
(***************************************************************************)
RECURSIVE SumSeq(_)
SumSeq(s) == IF s = <<>> THEN 0 ELSE Head(s) + SumSeq(Tail(s))

\* invocation h handles a 'generate' message
Gen(h) == req[h].kind = "generate"
\* ... and has posted its 'result'
Completed(h) == Gen(h) /\ req[h].posted # <<>> /\ Last(req[h].posted).type = "result"
Result(h) == Last(req[h].posted)

C2_TotalDuration ==
    \A h \in Handlers : Completed(h) =>
        LET N == Len(req[h].textChunks)
        IN /\ N >= 1
           /\ Result(h).duration =
                  SumSeq(req[h].durs) + (N - 1) * settings.silenceDuration
                  + (IF settings.endSilenceDuration > 0 THEN settings.endSilenceDuration ELSE 0)

C2_Witness ==
    \E h \in Handlers :
        /\ Completed(h)
        /\ Len(req[h].textChunks) >= 2
        /\ settings.silenceDuration > 0
        /\ settings.endSilenceDuration > 0
        /\ SumSeq(req[h].durs) > 0

\* C3: once an engine call has failed in unit k of a request, the request is
\* over: its last message is an error, it has posted no result, and no engine
\* call was issued for a unit after k.
C3_FailureAborts ==
    \A h \in Handlers : (Gen(h) /\ req[h].failedAt >= 0) =>
        /\ req[h].pc = "done"
        /\ Last(req[h].posted).type = "error"
        /\ \A m \in Range(req[h].posted) : m.type # "result"
        /\ \A c \in Range(req[h].calls) : c.unit <= req[h].failedAt

C3_Witness ==
    \E h \in Handlers :
        /\ Gen(h)
        /\ req[h].failedAt = 1
        /\ Len(req[h].textChunks) = 3
        /\ Len(req[h].durs) = 2

\* C4: a generate request posts no terminal message while it runs and exactly
\* one, as its last message, when it is over; no engine call is issued twice.
C4_OneTerminal ==
    \A h \in Handlers : Gen(h) =>
        LET posted == req[h].posted
            terminals == {k \in 1..Len(posted) : IsTerminal(posted[k])}
            calls == req[h].calls
        IN /\ Cardinality(terminals) = (IF req[h].pc = "done" THEN 1 ELSE 0)
           /\ terminals \subseteq {Len(posted)}
           /\ \A j, k \in 1..Len(calls) : j < k => calls[j] # calls[k]

C4_Witness ==
    \E h \in Handlers :
        /\ Gen(h)
        /\ req[h].pc = "done"
        /\ Last(req[h].posted).type = "error"
        /\ req[h].failedAt = 0
        /\ Len(req[h].calls) > TotalStep

\* C5: the engine calls of a request come unit by unit in segment order: a call
\* for the next unit follows the returned vocoder call of the unit before, and
\* the result is posted after the vocoder call of the last unit has returned.
C5_UnitsInOrder ==
    \A h \in Handlers : Gen(h) =>
        LET calls == req[h].calls
            N == Len(req[h].textChunks)
        IN /\ req[h].returns \in {Len(calls) - 1, Len(calls)} \cap Nat
           /\ \A j \in 1..Len(calls) :
                /\ j = 1 => calls[j].unit = 0
                /\ j > 1 => \/ calls[j].unit = calls[j - 1].unit
                            \/ /\ calls[j].unit = calls[j - 1].unit + 1
                               /\ calls[j - 1].stage = "vocoder"
                               /\ j - 1 <= req[h].returns
           /\ Completed(h) =>
                /\ calls # <<>>
                /\ Last(calls).stage = "vocoder"
                /\ Last(calls).unit = N - 1
                /\ req[h].returns = Len(calls)

C5_Witness ==
    \E h \in Handlers :
        /\ Gen(h)
        /\ req[h].pc = "dp"
        /\ req[h].i = 1

\* C6: every unit synthesized without error had exactly TotalStep calls of the
\* vector estimator, one for each step 0..TotalStep-1, whatever its duration.
C6_DiffusionSteps ==
    \A h \in Handlers : Gen(h) =>
        \A u \in 0..(req[h].i - 1) :
            LET steps == {j \in 1..Len(req[h].calls) :
                             req[h].calls[j].stage = "vectorEst" /\ req[h].calls[j].unit = u}
            IN /\ Cardinality(steps) = TotalStep
               /\ {req[h].calls[j].step : j \in steps} = 0..(TotalStep - 1)

C6_Witness ==
    \E h \in Handlers :
        /\ Completed(h)
        /\ req[h].i = 2
        /\ req[h].durs[1] = 0
        /\ req[h].durs[2] > 0

\* the sentences chunkText packs
Sentences(text) ==
    UNION {Range(SplitSentences(p, 1, 1)) : p \in Range(Paragraphs(text))}

\* C7: chunkText returns at least one unit, and a unit longer than the limit is
\* one sentence of the text standing alone.
C7_ChunkBound ==
    tphase = "segmented" =>
        /\ Len(units) >= 1
        /\ \A k \in 1..Len(units) :
               Len(units[k]) <= mlen \/ units[k] \in Sentences(txt)

C7_Witness ==
    /\ tphase = "segmented"
    /\ Len(units) >= 2
    /\ \E k \in 1..Len(units) : Len(units[k]) > mlen
    /\ \E k \in 1..Len(units) : Len(units[k]) <= mlen

\* C8: normalizing a normalized text gives the same text.
C8_NormalizerIdempotent == Len(norm) = 2 => norm[2] = norm[1]

\* a bundle whose flattened data does not have dims[1]*dims[2] elements
Malformed(v) ==
    \/ v.style_ttl.data # v.style_ttl.dims[2] * v.style_ttl.dims[3]
    \/ v.style_dp.data # v.style_dp.dims[2] * v.style_dp.dims[3]

\* C9: a generate request with a malformed voice style bundle ends with an
\* error, holds no style and has issued no engine call; a style that was loaded
\* has exactly the elements of its bundle.
C9_ShapeMismatchRejected ==
    \A h \in Handlers : Gen(h) =>
        /\ Malformed(req[h].voiceStyleData) =>
              /\ req[h].pc = "done"
              /\ Last(req[h].posted).type = "error"
              /\ Last(req[h].posted).message \in
                     {"tensor size mismatch", "TTS worker not initialized"}
              /\ req[h].style = NoStyle
              /\ req[h].calls = <<>>
        /\ req[h].style.ok =>
              /\ req[h].style.ttl.size = req[h].voiceStyleData.style_ttl.data
              /\ req[h].style.dp.size = req[h].voiceStyleData.style_dp.data

C9_Witness ==
    \E h \in Handlers :
        /\ Gen(h)
        /\ initialized
        /\ req[h].voiceStyleData = ShortTtlStyle
        /\ Len(req[h].posted) = 2
        /\ Last(req[h].posted).message = "tensor size mismatch"

\* C10: a generate request whose text is empty or white space only issues no
\* engine call.
C10_EmptyInputRejected ==
    \A h \in Handlers : (Gen(h) /\ Trim(req[h].text) = <<>>) => req[h].calls = <<>>

\* C11: when the duration predictor returns a duration that is not positive
\* for a unit, no text encoder, vector estimator or vocoder call is issued for
\* that unit and the request posts no result.
C11_NonPositiveDurationFatal ==
    \A h \in Handlers : Gen(h) =>
        \A k \in 1..Len(req[h].durs) : req[h].durs[k] <= 0 =>
            /\ \A c \in Range(req[h].calls) : c.unit = k - 1 => c.stage = "dp"
            /\ ~Completed(h)

\* the chunk-indexed progress messages of invocation h, in the order posted
ChunkProgress(h) == SelectSeq(req[h].posted, LAMBDA m : m.type = "progress" /\ m.chunkIndex >= 0)

\* C12: the chunk-indexed progress messages of a request with N units carry
\* chunkIndex 0, 1, ... in this order and totalChunks = N, the one for unit i
\* is posted only after unit i has been synthesized, and a completed request
\* has posted exactly N of them.
C12_ProgressAfterUnit ==
    \A h \in Handlers : Gen(h) =>
        LET p == ChunkProgress(h)
            N == Len(req[h].textChunks)
        IN /\ \A k \in 1..Len(p) : p[k].chunkIndex = k - 1 /\ p[k].totalChunks = N
           /\ Len(p) <= req[h].i
           /\ Completed(h) => Len(p) = N

\* the invocations that have called session.run and await its promise
InFlight == {h \in Handlers : req[h].pc \in {"dp", "textEnc", "vectorEst", "vocoder"}}

\* C13: at most one engine call is in flight in the worker at any time.
C13_OneRunInFlight == Cardinality(InFlight) <= 1

\* C14: once a session handle or the engine config is set, no step of the
\* worker assigns it again.
C14_InitializedOnce ==
    [][ /\ (config # <<>> => config' = config)
        /\ (dpOrt # 0 => dpOrt' = dpOrt)
        /\ (textEncOrt # 0 => textEncOrt' = textEncOrt)
        /\ (vectorEstOrt # 0 => vectorEstOrt' = vectorEstOrt)
        /\ (vocoderOrt # 0 => vocoderOrt' = vocoderOrt) ]_vars

\* invocation h handled an 'init' message that ended in the catch block
InitFailed(h) ==
    req[h].kind = "init" /\ req[h].pc = "done" /\ Last(req[h].posted).type = "error"

\* C15: after a failed initialization the worker holds nothing of it:
\* initialized is false and config, textProcessor and the four sessions are
\* unset.
C15_NoPartialInit ==
    \A h \in Handlers : InitFailed(h) =>
        /\ ~initialized
        /\ config = <<>>
        /\ textProcessor = 0
        /\ dpOrt = 0 /\ textEncOrt = 0 /\ vectorEstOrt = 0 /\ vocoderOrt = 0

\* C16: a generate call made after the style of its voice has been loaded
\* fetches no bundle and builds no tensors, and takes the style from the cache.
C16_VoiceStyleCached ==
    /\ \A c \in TtsCallers : (tcall[c].kind = "generate" /\ tcall[c].known) =>
           /\ ~tcall[c].fetched
           /\ ~tcall[c].parsed
           /\ tcall[c].hit
    /\ \A c \in ClientCalls : (ccall[c].kind = "generate" /\ ccall[c].known) =>
           ~ccall[c].fetched

\* the lines of a text: split('\n')
RECURSIVE SplitLines(_, _, _)
SplitLines(s, p, start) ==
    IF p > Len(s) THEN <<SubSeq(s, start, Len(s))>>
    ELSE IF s[p] = "\n" THEN <<SubSeq(s, start, p - 1)>> \o SplitLines(s, p + 1, p + 1)
    ELSE SplitLines(s, p + 1, start)

DigitValue(c) == CHOOSE d \in 0..9 : DigitChars[d + 1] = c
IsDigit(c) == \E d \in 0..9 : DigitChars[d + 1] = c

\* s has the form HH:MM:SS,mmm
TimeForm(s) ==
    /\ Len(s) = 12
    /\ \A k \in {1, 2, 4, 5, 7, 8, 10, 11, 12} : IsDigit(s[k])
    /\ s[3] = ":" /\ s[6] = ":" /\ s[9] = ","

\* the milliseconds a text of the form HH:MM:SS,mmm stands for
TimeValue(s) ==
    LET n2(k) == 10 * DigitValue(s[k]) + DigitValue(s[k + 1])
    IN ((n2(1) * 60 + n2(4)) * 60 + n2(7)) * 1000 + 10 * n2(10) + DigitValue(s[12])

\* line has the form 'HH:MM:SS,mmm --> HH:MM:SS,mmm'
PairForm(line) ==
    /\ Len(line) = 29
    /\ TimeForm(SubSeq(line, 1, 12))
    /\ SubSeq(line, 13, 17) = <<" ", "-", "-", ">", " ">>
    /\ TimeForm(SubSeq(line, 18, 29))

\* the form and the order of caption block i of the rendered lines
SrtBlockForm(lines, i) ==
    /\ lines[4 * i - 3] = NumberToString(i)
    /\ PairForm(lines[4 * i - 2])
    /\ lines[4 * i - 1] = timestamps[i].text
    /\ lines[4 * i] = <<>>

\* C17: the text generateSRT renders for N timestamps is N blocks of four
\* lines: the number of the block counting from 1, a pair
\* 'HH:MM:SS,mmm --> HH:MM:SS,mmm' whose end is later than its start, the text
\* of the timestamp, an empty line.
C17_SrtBlocks ==
    tphase = "serialized" =>
        LET lines == SplitLines(srt, 1, 1)
            N == Len(timestamps)
        IN /\ Len(lines) = (IF N = 0 THEN 1 ELSE 4 * N)
           /\ \A i \in 1..N :
                /\ SrtBlockForm(lines, i)
                /\ TimeValue(SubSeq(lines[4 * i - 2], 18, 29))
                       > TimeValue(SubSeq(lines[4 * i - 2], 1, 12))

\* the number of samples of a waveform given as the runs it is concatenated from
Samples(wav) == SumSeq([k \in 1..Len(wav) |-> wav[k].len])

\* C18: the waveform of a completed request has as many samples as its
\* reported duration times the sample rate.
C18_SamplesMatchDuration ==
    \A h \in Handlers : Completed(h) =>
        Samples(Result(h).wav) = Result(h).duration * config[1].ae.sample_rate

\* the characters preprocessText removes or turns into white space
Vanishing ==
    WhiteSpace \cup EmojiChars \cup SpecialSymbols \cup Diacritics
    \cup {"U+00AF", "_", "[", "]", "|", "/", "#", "U+2192", "U+2190"}

\* C19: every result of preprocessText is a non-empty text whose last
\* character is one of the tail punctuation characters, and the result for a
\* text of which nothing remains is a single full stop.
C19_TailPunctuation ==
    /\ \A k \in 1..Len(norm) : norm[k] # <<>> /\ Last(norm[k]) \in TailPunctuation
    /\ (norm # <<>> /\ \A k \in 1..Len(txt) : txt[k] \in Vanishing) => norm[1] = <<".">>

C19_Witness ==
    /\ Len(norm) = 2
    /\ Len(txt) = MaxNormText
    /\ \A k \in 1..Len(txt) : txt[k] \in Vanishing
    /\ norm[1] = <<".">>

\* C20: for a batch of texts UnicodeProcessor.call returns one row of indices
\* and one mask row per text, all as long as the longest processed text; in each
\* row a position inside the processed text holds the index of the character at
\* that position (0 when the indexer does not know it) with mask 1, and a
\* position after its end holds index 0 with mask 0.
C20_SymbolEncoder ==
    tphase = "encoded" =>
        LET bsz == Len(textList)
            processed == [b \in 1..bsz |-> preprocessText(textList[b])]
            maxLen == Max({Len(processed[b]) : b \in 1..bsz})
        IN /\ Len(textIds) = bsz
           /\ Len(textMask) = bsz
           /\ \A b \in 1..bsz :
                /\ Len(textIds[b]) = maxLen
                /\ Len(textMask[b]) = 1
                /\ Len(textMask[b][1]) = maxLen
                /\ \A j \in 1..maxLen :
                      IF j <= Len(processed[b])
                      THEN textIds[b][j] = Indexer(processed[b][j]) /\ textMask[b][1][j] = 1
                      ELSE textIds[b][j] = 0 /\ textMask[b][1][j] = 0

\* C21: the text encoded for a unit is no longer than the maximum unit
\* length, unless the unit is a single sentence of the text.
C21_EncodedUnitBound ==
    tphase = "processed" =>
        \A k \in 1..Len(units) :
            Len(norm[k]) <= mlen \/ units[k] \in Sentences(txt)

\* C22: a cacheable GET dispatched while the cache holds a response for it is
\* answered from the cache without a fetch, and no step of the worker removes
\* an entry from its cache (activation deletes only the caches of other
\* names).
C22_CacheFirstForever ==
    /\ [](\A h \in DOMAIN sw.ev :
             (sw.ev[h].hadEntry /\ sw.ev[h].method = "GET") =>
                 /\ ~sw.ev[h].fetched
                 /\ sw.ev[h].pc = "done" => sw.ev[h].answer = "cache")
    /\ [][ /\ CACHE_NAME \in DOMAIN sw.caches => CACHE_NAME \in DOMAIN sw.caches'
           /\ \A url \in Pathnames :
                  Stored(url) => url \in sw.caches'[CACHE_NAME]
           /\ \A n \in DOMAIN sw.caches \ DOMAIN sw.caches' : n # CACHE_NAME ]_vars

C22_Witness ==
    \E h \in DOMAIN sw.ev :
        /\ sw.ev[h].pc = "done"
        /\ sw.ev[h].hadEntry
        /\ sw.ev[h].answer = "cache"
        /\ sw.ev[h].url \in sw.stored
        /\ "dubstack-assets-v0" \in sw.cacheNames \ DOMAIN sw.caches

\* C23: when the client has no worker (none was created yet, or terminate()
\* tore it down), no promise of a request posted to a worker is left pending
\* and pendingResolve, pendingReject and progressCallback are cleared.
C23_TerminateDiscardsPending ==
    client.worker = 0 =>
        /\ \A c \in ClientCalls : ccall[c].pc = "posted" => ccall[c].outcome # "pending"
        /\ client.pendingResolve = 0
        /\ client.pendingReject = 0
        /\ client.progressCallback = 0

\* a run of zero samples of this length
Silence(len) == [kind |-> "silence", unit |-> -1, len |-> len]

\* C24: the waveform of a completed request with N units is the units'
\* waveforms in unit order with one run of silenceDuration * sampleRate zero
\* samples between each two of them and none before the first, followed by a
\* run of endSilenceDuration * sampleRate zero samples exactly when
\* endSilenceDuration is positive, and by nothing else.
C24_WaveformLayout ==
    \A h \in Handlers : Completed(h) =>
        LET w == Result(h).wav
            N == Len(req[h].textChunks)
            sampleRate == config[1].ae.sample_rate
            tail == settings.endSilenceDuration > 0
        IN /\ Len(w) = 2 * N - 1 + (IF tail THEN 1 ELSE 0)
           /\ \A k \in 1..N : w[2 * k - 1].kind = "wav" /\ w[2 * k - 1].unit = k - 1
           /\ \A k \in 1..(N - 1) : w[2 * k] = Silence(settings.silenceDuration * sampleRate)
           /\ tail => w[2 * N] = Silence(settings.endSilenceDuration * sampleRate)

C24_Witness ==
    \E h \in Handlers :
        /\ Completed(h)
        /\ Len(req[h].textChunks) = 3
        /\ Len(Result(h).wav) = 6
        /\ settings.silenceDuration > 0
        /\ Result(h).wav[1].len > 0

\* the positions in the calls of invocation h of the vector estimator calls
\* for unit u
EstCalls(h, u) ==
    {j \in 1..Len(req[h].calls) :
         req[h].calls[j].stage = "vectorEst" /\ req[h].calls[j].unit = u}

\* C25: the vector estimator calls of a unit carry the steps 0, 1, ... in
\* this order, each is issued after the call before it has returned, call 0
\* is given the masked noise of the unit and call n + 1 the denoised latent
\* call n returned, and all of them are given the same text embedding, text
\* mask, latent mask and total_step.
C25_DiffusionChain ==
    \A h \in Handlers : Gen(h) =>
        /\ req[h].returns >= Len(req[h].calls) - 1
        /\ \A u \in 0..(Len(req[h].textChunks) - 1) :
               \A j \in EstCalls(h, u) :
                   LET c == req[h].calls[j]
                       n == Cardinality({k \in EstCalls(h, u) : k < j})
                   IN /\ c.step = n
                      /\ n < TotalStep
                      /\ n = 0 => c.latent = [from |-> "noise", unit |-> u, step |-> -1]
                      /\ n > 0 => /\ req[h].calls[j - 1].stage = "vectorEst"
                                  /\ req[h].calls[j - 1].unit = u
                                  /\ c.latent = [from |-> "vectorEst", unit |-> u, step |-> n - 1]
                      /\ \A k \in EstCalls(h, u) :
                             /\ req[h].calls[k].textEmb = c.textEmb
                             /\ req[h].calls[k].textLen = c.textLen
                             /\ req[h].calls[k].latentLen = c.latentLen
                             /\ req[h].calls[k].totalStep = c.totalStep
                      /\ c.textEmb = u

C25_Witness ==
    \E h \in Handlers :
        /\ Gen(h)
        /\ Cardinality(EstCalls(h, 1)) = TotalStep
        /\ req[h].pc = "vocoder"
        /\ req[h].i = 1

\* the engine calls of one unit in program order: the stages
StagesOfUnit ==
    <<"dp", "textEnc">> \o [n \in 1..TotalStep |-> "vectorEst"] \o <<"vocoder">>

\* the calls invocation h has issued for unit u, in the order issued
CallsOfUnit(h, u) == SelectSeq(req[h].calls, LAMBDA c : c.unit = u)

\* C26: the engine calls of a unit are, in this order, one call of the
\* duration predictor, one of the text encoder, TotalStep of the vector
\* estimator and one of the vocoder: a unit in progress has issued a prefix of
\* them, a synthesized unit all of them, and the vocoder is given the latent
\* the last diffusion step returned.
C26_StageOrder ==
    \A h \in Handlers : Gen(h) =>
        \A u \in 0..(Len(req[h].textChunks) - 1) :
            LET cs == CallsOfUnit(h, u)
            IN /\ Len(cs) <= Len(StagesOfUnit)
               /\ \A k \in 1..Len(cs) : cs[k].stage = StagesOfUnit[k]
               /\ u < req[h].i => Len(cs) = Len(StagesOfUnit)
               /\ Len(cs) = Len(StagesOfUnit) =>
                      Last(cs).latent = [from |-> "vectorEst", unit |-> u, step |-> TotalStep - 1]

C26_Witness ==
    \E h \in Handlers :
        /\ Completed(h)
        /\ req[h].i = 3
        /\ Len(CallsOfUnit(h, 2)) = Len(StagesOfUnit)

\* the concatenation of a sequence of sequences
RECURSIVE Flatten(_)
Flatten(ss) == IF ss = <<>> THEN <<>> ELSE Head(ss) \o Flatten(Tail(ss))

\* the sentences of each paragraph of the harness's text, and all of them in
\* text order with the paragraph each is in
SentenceLists ==
    LET ps == Paragraphs(txt) IN [p \in 1..Len(ps) |-> SplitSentences(ps[p], 1, 1)]
InputSentences == Flatten(SentenceLists)
ParagraphOf ==
    Flatten([p \in 1..Len(SentenceLists) |-> [j \in 1..Len(SentenceLists[p]) |-> p]])

\* the sentences of a unit (an empty unit has none)
UnitSentences(u) == IF u = <<>> THEN <<>> ELSE SplitSentences(u, 1, 1)

\* the positions in InputSentences of the first and the last sentence of unit k
FirstOfUnit(k) == 1 + SumSeq([m \in 1..(k - 1) |-> Len(UnitSentences(units[m]))])
LastOfUnit(k) == FirstOfUnit(k) + Len(UnitSentences(units[k])) - 1

\* the length of sentences a..b joined by single spaces
JoinedLen(a, b) == SumSeq([i \in 1..(b - a + 1) |-> Len(InputSentences[a + i - 1])]) + (b - a)

\* C27: the sentences of the units read in order are the sentences of the
\* text in text order; the sentences of a unit are of one paragraph; a
\* sentence that follows another in its unit fitted (length so far + 1 + its
\* length <= maxLen), and the first sentence of a unit that continues a
\* paragraph did not fit in the unit before.
C27_ChunkPacking ==
    tphase = "segmented" =>
        /\ Flatten([k \in 1..Len(units) |-> UnitSentences(units[k])]) = InputSentences
        /\ \A k \in 1..Len(units) :
               LET a == FirstOfUnit(k)
                   b == LastOfUnit(k)
               IN b >= a =>
                    /\ ParagraphOf[a] = ParagraphOf[b]
                    /\ \A i \in (a + 1)..b :
                           JoinedLen(a, i - 1) + 1 + Len(InputSentences[i]) <= mlen
                    /\ (a > 1 /\ ParagraphOf[a - 1] = ParagraphOf[a]) =>
                           Len(units[k - 1]) + 1 + Len(InputSentences[a]) > mlen

C27_Witness ==
    /\ tphase = "segmented"
    /\ Len(SentenceLists) = 1
    /\ Len(InputSentences) = 3
    /\ Len(units) = 2
    /\ Len(UnitSentences(units[1])) = 2

\* C28: for a batch of durations the initial latent has one entry per
\* duration, latent_dim * chunk_compress_factor rows each, and every row has
\* ceil(duration * sample_rate / (base_chunk_size * chunk_compress_factor))
\* positions for the longest duration; the latent mask has one row per
\* duration, as long as the rows of the latent; and a position of the latent
\* whose mask is 0 holds 0.
C28_InitialLatent ==
    tphase = "sampled" =>
        LET bsz == Len(latentInput)
            chunkSize == BaseChunkSize * ChunkCompressFactor
            wavLenNum == Max(Range(latentInput)) * SampleRate
            ceilLen == (wavLenNum + DurationDen * chunkSize - 1) \div (DurationDen * chunkSize)
        IN /\ Len(noisyLatent) = bsz
           /\ Len(latentMask) = bsz
           /\ \A b \in 1..bsz :
                /\ Len(noisyLatent[b]) = LatentDim * ChunkCompressFactor
                /\ Len(latentMask[b]) = 1
                /\ Len(latentMask[b][1]) = ceilLen
                /\ \A d \in 1..Len(noisyLatent[b]) :
                     /\ Len(noisyLatent[b][d]) = ceilLen
                     /\ \A t \in 1..ceilLen :
                            latentMask[b][1][t] = 0 => noisyLatent[b][d][t] = 0

\* the characters no white space may stand before
NoSpaceBefore == {",", ".", "!", "?", ";", ":", "'"}

\* C29: a result of preprocessText has no white space character directly
\* before one of , . ! ? ; : ' and no two white space characters in a row, and
\* it neither begins nor ends with white space.
C29_SpacingNormalized ==
    \A k \in 1..Len(norm) :
        LET s == norm[k]
        IN /\ \A j \in 1..(Len(s) - 1) :
                  /\ ~(IsWS(s[j]) /\ s[j + 1] \in NoSpaceBefore)
                  /\ ~(IsWS(s[j]) /\ IsWS(s[j + 1]))
           /\ s # <<>> => ~IsWS(s[1]) /\ ~IsWS(Last(s))

\* C30: the promise of a generate call that the message of a generate request
\* settled was settled by a message of the call's own request, and the call's
\* progress callback was never called with a progress message of another
\* request.
C30_OwnMessagesOnly ==
    \A c \in ClientCalls : ccall[c].kind = "generate" =>
        /\ (ccall[c].by # 0 /\ ccall[ccall[c].by].kind = "generate") => ccall[c].by = c
        /\ ~ccall[c].foreign

\* C31: at most one Worker of a client is alive at any time, and every init()
\* promise can still settle: a pending init() promise is the one whose
\* resolve and reject functions the client holds, the only way it settles
\* (part_000 58-102, 104-131)
C31_OneWorkerEveryInitSettles ==
    /\ Cardinality(client.alive) <= 1
    /\ \A c \in ClientCalls :
           (ccall[c].kind = "init" /\ ccall[c].outcome = "pending")
               => (client.pendingResolve = c /\ client.pendingReject = c)

\* the number of entries of availableVoices with this id
VoiceCount(voices, id) == Cardinality({k \in 1..Len(voices) : voices[k] = id})

\* C32: whatever init() and generate() calls have been made, overlapping or
\* not, getAvailableVoices() never lists a voice id twice, and once the
\* instance is initialized it lists each of the ten ids exactly once
\* (part_002 358-456, 633-636)
C32_VoicesListedOnce ==
    \A k \in 1..Len(VoiceMapIds) :
        /\ VoiceCount(tts.availableVoices, VoiceMapIds[k]) <= 1
        /\ tts.initialized => VoiceCount(tts.availableVoices, VoiceMapIds[k]) = 1

\* C33: every loadAllAssets call that succeeds returns the video of the
\* videoName and the font of the fontPath it was called with, and the first
\* call after clearAssetCache() fetches the TTS, FFmpeg and font assets again
\* (assetLoader.ts 132-145, 150-192, 197-200)
C33_RequestedAssets ==
    \A c \in LoadCalls :
        /\ lcall[c].outcome = "resolved"
               => (lcall[c].video = lcall[c].videoName /\ lcall[c].font = lcall[c].fontPath)
        /\ lcall[c].afterClear => {"tts", "ffmpeg", "font"} \subseteq lcall[c].fetched

\* the values of a sequence never go down
NonDecreasing(s) == \A j \in 1..(Len(s) - 1) : s[j] <= s[j + 1]

\* C34: once a run is in the 'error' stage because loadAllAssets rejected, the
\* stage stays 'error' until a new run is started; onProgress of a
\* loadAllAssets call is never called after the call has rejected; the
\* progress values a call reports never go down, and 100 is reported only
\* when all four asset groups have loaded (assetLoader.ts 157-191, App.tsx
\* 158-272)
C34_ErrorStageStays ==
    /\ [][(/\ processing.stage = "error"
           /\ processing.run # 0
           /\ lcall[processing.run].outcome = "rejected"
           /\ processing'.stage # "error") => processing'.run # processing.run]_vars
    /\ [](\A c \in LoadCalls :
              /\ ~lcall[c].late
              /\ NonDecreasing(lcall[c].reports)
              /\ (\E j \in 1..Len(lcall[c].reports) : lcall[c].reports[j] = 100)
                     => \A g \in DOMAIN lcall[c].pc : lcall[c].pc[g] = "loaded")

\* C35: whenever no dub() call is in progress, the virtual filesystem holds
\* none of input.mp4, audio.wav, subtitles.srt and output.mp4, and no dub()
\* call reads a file written by a call that had ended when it was made
\* (dubber.ts 134-284)
C35_FilesystemClean ==
    /\ (\A c \in DubCalls : dcall[c].pc \in {"idle", "done"}) => \A f \in DubFiles : dubber.fs[f] = 0
    /\ \A c \in DubCalls, f \in DubFiles : dcall[c].reads[f] \notin dcall[c].after

\* C36: the worker calls cache.put only for a GET request that is cacheable
\* (listed extension, or /models/ or /videos/ in the path) and whose network
\* response has status 200 or 206, and nothing else adds an entry to its
\* cache; a request that is not a GET or not cacheable is left to the browser
\* without a fetch by the worker; so a response of another status is never
\* stored and never served from the cache to a later request.
C36_StoresOnlyGoodResponses ==
    /\ [](\A p \in sw.puts : isCachableAsset(p.url) /\ p.status \in {200, 206})
    /\ [](\A h \in DOMAIN sw.ev :
              (sw.ev[h].pc # "idle" /\ (sw.ev[h].method # "GET" \/ ~isCachableAsset(sw.ev[h].url)))
                  => (sw.ev[h].pc = "done" /\ sw.ev[h].answer = "default" /\ ~sw.ev[h].fetched))
    /\ [][ /\ \A p \in sw.puts' \ sw.puts :
                  \E h \in DOMAIN sw.ev :
                      /\ sw.ev[h].pc = "fetch" /\ sw.ev[h].method = "GET"
                      /\ sw.ev[h].url = p.url /\ sw.ev'[h].status = p.status
           /\ \A url \in Pathnames :
                  (~Stored(url) /\ CACHE_NAME \in DOMAIN sw.caches' /\ url \in sw.caches'[CACHE_NAME])
                      => \E p \in sw.puts : p.url = url /\ p.status \in {200, 206} ]_vars

\* a 404 answer to a cacheable GET has been passed on and not stored, while
\* the 200 answer to another one has been stored
C36_Witness ==
    \E h, g \in DOMAIN sw.ev :
        /\ sw.ev[h].pc = "done" /\ sw.ev[h].answer = "network" /\ sw.ev[h].status = 404
        /\ ~sw.ev[h].hadEntry /\ ~Stored(sw.ev[h].url)
        /\ sw.ev[g].pc = "done" /\ sw.ev[g].answer = "network" /\ sw.ev[g].status = 200
        /\ sw.ev[g].url \in sw.stored /\ Stored(sw.ev[g].url)
        /\ sw.puts = {}

====
